---------------------------- MODULE Spec2Model ----------------------------
(***************************************************************************)
(* State-machine model of the pulse client's synchronisation core:         *)
(*   - the beat-grid event scheduler (perform-event-scheduler.js),         *)
(*   - the beat-time arithmetic (beat-time.js),                            *)
(*   - the transport client's clock sync (pulse-transport-client.js).      *)
(*                                                                         *)
(* Numbers.  JavaScript numbers that carry a time are modelled as integer  *)
(* microseconds, so that 20.833 ms is the integer 20833 and the beat       *)
(* arithmetic is exact.  A non-finite number (NaN, Infinity, undefined     *)
(* after Number()) is the one value NaN, an integer no computation of the  *)
(* model produces; IsFinite is Number.isFinite.  The raw eventId and       *)
(* absoluteBeat of an incoming event are carried in halves (the raw value  *)
(* 3 is 1.5), so that Math.trunc has something to truncate.                *)
(***************************************************************************)
EXTENDS Integers, Naturals, Sequences, FiniteSets, TLC

(***************************************************************************)
(* Bounds of the model.                                                    *)
(***************************************************************************)
MaxId == 3
MaxBeat == 1
MaxNowSteps == 2
MaxPing == 3
MaxSockets == 2
MaxSyncSteps == 1
\* Slots of the player, and setTrackSource loads begun per slot.
MaxTracks == 2
MaxLoads == 2
\* Buffer source nodes the player makes, and loads in flight while it plays.
MaxSources == 2
MaxInFlight == 1
\* start() calls of the drum pulse synth in flight, and steps of its clock.
MaxStarts == 1
MaxSynthSteps == 2
\* commitValue calls of the server field controller.
MaxCommits == 2
\* Beat windows the beat display's clock runs for.
MaxBeatSpan == 3
\* Trials of a calibration, and calibrate calls that get past the checks.
MaxTrials == 2
MaxCalibrations == 2

(***************************************************************************)
(* Program constants.                                                      *)
(***************************************************************************)
SCHEDULER_INTERVAL_MS == 25
SCHEDULER_LOOKAHEAD_MS == 140
SCHEDULER_GUARD_MS == 35
TICKS_PER_BEAT == 24
DEFAULT_TICK_LENGTH_US == 20833
MAX_LATENCY_MS == 2000
MAX_SYNC_SAMPLES == 60
INITIAL_SYNC_DELAYS_MS == <<0, 120, 260, 450, 700>>

NaN == 0 - 1000000000
IsFinite(x) == x # NaN

\* One advance of the local clock: ten scheduler intervals, in microseconds.
\* The step of the drum pulse synth's clock: two timer intervals.
SynthStepUs == 2 * SCHEDULER_INTERVAL_MS * 1000
TimeStepUs == 10 * SCHEDULER_INTERVAL_MS * 1000

\* One advance of the local clock while a sync exchange is in flight: 2 ms.
SyncStepUs == 2 * 1000

\* Math.min(2, ...) of clampSpeakerLatencySeconds, in microseconds.
MAX_SPEAKER_LATENCY_US == 2000000
MAX_TRIM_US == 300000
MAX_AUTO_LATENCY_MS == 350
MIN_VALID_TRIAL_MS == 12
MAX_VALID_TRIAL_MS == 900

\* What the server's clock reads when it stamps a reply: 10 ms.
ServerBaseUs == 10 * 1000

VARIABLES
    \* ---- event scheduler (closure state of createPerformEventScheduler)
    timerId,            \* 0, or the handle of the interval timer
    nextEventCursor,    \* index (0-based) of the next event to offer
    events,             \* the queue, a sequence of [eventId, absoluteBeat]
    seenEventIds,
    deferredEventIds,
    running,
    \* ---- the scheduler's environment
    liveTimers,         \* number of interval timers set and not cleared
    now,                \* performance.now(), microseconds
    pulseState,         \* [tickLength, lastDownBeatTime, clockOffset]
    latencySeconds,     \* what getLatencySeconds() returns, microseconds
    audioNow,           \* what getAudioCurrentTime() returns, microseconds
    \* ---- observations of the scheduler's calls
    sinkLog,            \* the onScheduleEvent calls made by the latest operation
    handed,             \* every event the sink accepted, in order, since clear()
    enqueueReturn,      \* what the latest operation returned, if it was an enqueue
    lateEnqueue,        \* an enqueue was accepted after an event was handed
    \* ---- transport client (closure state of createPulseTransportClient)
    ws,                 \* 0 for null, or the socket the client holds
    nextPingId,
    clockOffset,        \* the estimate, an exact rational <<num, den>>
    syncTimers,         \* burst timers set by scheduleInitialClockSync, not yet fired
    pendingPings,       \* requestId -> [sentAt, timeoutId]
    syncSamples,        \* the history, a sequence of [roundTripTime, clockOffset]
    \* ---- the transport client's environment
    readyState,         \* socket -> "unused", "connecting", "open", "closing", "closed"
    pingTimeouts,       \* the per-request timeouts set and not cleared
    requestsLeft,       \* get_time requests the model still lets the client send
    \* ---- observations of the transport client's calls
    observerCalls,      \* the observer notifications made by the latest operation
    delivered,          \* the requestId of the server_time message the latest
                        \* operation handled
    deliveredInvalid,   \* that message answered a pending request and one of
                        \* the four stamps t1..t4 was not finite
    sampledIds          \* the requestIds whose reply became a sample

schedVars == <<timerId, nextEventCursor, events, seenEventIds, deferredEventIds,
               running, liveTimers, now, pulseState, latencySeconds, audioNow,
               sinkLog, handed, enqueueReturn, lateEnqueue>>

\* The scheduler's variables but the two clocks.
schedState == <<timerId, nextEventCursor, events, seenEventIds, deferredEventIds,
                running, liveTimers, pulseState, latencySeconds,
                sinkLog, handed, enqueueReturn, lateEnqueue>>

syncVars == <<ws, nextPingId, clockOffset, syncTimers, pendingPings, syncSamples,
              readyState, pingTimeouts, requestsLeft, observerCalls, delivered,
              deliveredInvalid,
              sampledIds>>

VARIABLES
    \* ---- multi-track buffer player (closure state of createMultiTrackBufferPlayer)
    tracks,             \* slot -> [url, buffer, loadToken, source]; source is
                        \* 0 for null, or the index in sources of the node
    audioContext,       \* FALSE for null, TRUE when the player holds a context
                        \* (master is set and cleared together with it)
    \* ---- the player's environment
    loads,              \* the setTrackSource calls waiting at an await
    sources,            \* the buffer source nodes made so far: [slot, state],
                        \* "playing" from start() on, "stopping" once stop()
                        \* was called, "ended" once its ended event fired
    \* ---- observations of the player's calls
    settled,            \* the setTrackSource call the latest operation finished
    playerCall,         \* [op, trackIndex, returned] of the latest call
    destroyed           \* destroy was called and unlock was not called since

playerVars == <<tracks, audioContext, loads, sources, settled, playerCall, destroyed>>

VARIABLES
    \* ---- beat display (closure state of mountBeatDisplay and its element)
    rafId,              \* 0, or the handle of the requested animation frame
    lastAbsoluteBeat,   \* the absolute beat of the latest render
    beatInBar,          \* the number the latest render wrote to the element
    downbeat,           \* the element carries the downbeat class
    \* ---- the beat display's environment
    displayPulse,       \* what getPulseState() returns:
                        \* [tickLength, lastDownBeatTime, clockOffset, numBarBeats]
    inBarReadAt,        \* performance.now() as getBeatInBar read it, microseconds
    beatReadAt          \* performance.now() as getAbsoluteBeatNow read it next

beatVars == <<rafId, lastAbsoluteBeat, beatInBar, downbeat, displayPulse,
              inBarReadAt, beatReadAt>>

VARIABLES
    \* ---- speaker latency in the app state (state.pulse) and in localStorage
    speakerLatencyBaseSeconds,          \* microseconds
    speakerLatencyTrimSeconds,          \* microseconds
    speakerLatencyCompensationSeconds,  \* microseconds
    storedBase,         \* what parseFloat makes of the stored base text, in
                        \* microseconds; NaN when there is none or it is no number
    storedTrim,         \* the same for the stored trim text
    hasStorage,         \* window.localStorage exists
    \* ---- observations of the latency calls
    latencyCall         \* [op, returned] of the latest operation: "load" for the
                        \* evaluation of the state module, or the setter called

latencyVars == <<speakerLatencyBaseSeconds, speakerLatencyTrimSeconds,
                 speakerLatencyCompensationSeconds, storedBase, storedTrim,
                 hasStorage, latencyCall>>

VARIABLES
    \* ---- speaker latency calibrator (closure state of
    \* createSpeakerLatencyCalibrator and of the calibrate calls in progress)
    isRunning,
    calibCalls,         \* the calibrate calls waiting at an await: [id, pc,
                        \* trials, i, stream, context, contextLatencyMs, outcome]
    \* ---- the calibrator's environment
    liveStreams,        \* microphone streams with a track not stopped
    openContexts,       \* audio contexts made by calibrate and not closed
    calibrations,       \* calibrate calls that got past the checks so far
    \* ---- observations of the calibrator's calls
    calibStatus,        \* the latest text passed to setStatus
    calibEvent          \* [op, outcome, seconds] of the latest operation

calibVars == <<isRunning, calibCalls, liveStreams, openContexts, calibrations,
               calibStatus, calibEvent>>

VARIABLES
    \* ---- the pick of calibrate taken by itself
    pickTrials,             \* the finite latencies the trials pushed, in ms
    pickContextLatencyMs,   \* (baseLatency + outputLatency) * 1000
    pickReturn                  \* what calibrate returns for them, or NoPick

pickVars == <<pickTrials, pickContextLatencyMs, pickReturn>>

VARIABLES
    \* ---- drum pulse synth (closure state of createDrumPulseSynth)
    synthContext,       \* FALSE for null, TRUE when the synth holds a context
                        \* (master is set and cleared together with it)
    schedulerTimerId,   \* 0, or the handle of the interval timer
    synthRunning,       \* running
    nextAbsoluteBeat,   \* the beat cursor; NaN at first
    transportSignature, \* <<>> for "", or <<lastDownBeatTime, tickLength,
                        \* numBarBeats>> as getTransportSignature joins them
    \* ---- the synth's environment
    synthTimers,        \* interval timers set and not cleared
    synthStarts,        \* start() calls waiting for ensureContext
    tones,              \* the wood blocks handed to the context: [beat,
                        \* downbeat, signature, when, live]; when is the
                        \* local time of the tone, live tells that no stop()
                        \* came since it was triggered
    synthNow,           \* performance.now() and the context's clock
    synthPulse,         \* getPulseState()
    synthLatency,       \* getLatencySeconds()
    \* ---- observations of the synth's calls
    synthCall,          \* [op, current, emitted] of the latest operation
    synthStopped        \* stop() or destroy() returned and start() was not
                        \* called since

synthVars == <<synthContext, schedulerTimerId, synthRunning, nextAbsoluteBeat,
               transportSignature, synthTimers, synthStarts, tones, synthNow,
               synthPulse, synthLatency, synthCall, synthStopped>>

VARIABLES
    \* ---- server field controller (closure state of
    \* mountServerFieldController and its two elements)
    applying,
    hasDraftValue,
    inputValue,         \* inputEl.value, a text
    inputDisabled,      \* inputEl.disabled
    applyDisabled,      \* applyButton.disabled
    \* ---- the controller's environment
    isEditing,          \* document.activeElement === inputEl
    serverValue,        \* what readServerValue() returns
    editable,           \* what canEdit() returns
    commits,            \* the commitValue calls in flight, by their value
    committed,          \* the values commitValue resolved for, in order
    \* ---- observations of the controller's calls
    fieldCall,          \* [op, error] of the latest operation; error names
                        \* the error callback it invoked
    userDraft,          \* the user typed into the input and no commit of
                        \* what the input held has succeeded since
    listening           \* the controller's listeners are on the elements

fieldVars == <<applying, hasDraftValue, inputValue, inputDisabled, applyDisabled,
               isEditing, serverValue, editable, commits, committed, fieldCall,
               userDraft, listening>>

VARIABLES
    \* ---- two clients of one authority clock, each with beat-time.js
    twinAuthority,      \* the authority's clock, microseconds
    twinLocal,          \* performance.now() of each client
    twinPulse,          \* the pulse state each client holds
    twinBeats           \* [absoluteBeat, beatInBar] as each client computed
                        \* them at the latest reading

twinVars == <<twinAuthority, twinLocal, twinPulse, twinBeats>>

VARIABLES
    \* ---- the timing fields of the app state, state.pulse, and the pulse
    \* ---- messages of the transport client; numbers are carried in halves
    statePulse,         \* [lastDownBeatTime, tickLength, numBarBeats]
    \* ---- observations
    pulseMessage,       \* the latest pulse message, a field that is missing,
                        \* not a number or not finite being NaN
    notified            \* the calls of the app state's listeners the latest
                        \* message led to

pulseVars == <<statePulse, pulseMessage, notified>>

lastVars == <<twinVars, pulseVars>>

\* The variables of the components added last.
moreVars == <<pickVars, synthVars, fieldVars, lastVars>>

\* The variables of the components other than the scheduler and the
\* transport client.
extraVars == <<playerVars, beatVars, latencyVars, calibVars, moreVars>>

\* What the steps of one component leave alone.
notPlayerVars == <<schedVars, syncVars, beatVars, latencyVars, calibVars, moreVars>>
notBeatVars == <<schedVars, syncVars, playerVars, latencyVars, calibVars, moreVars>>
notLatencyVars == <<schedVars, syncVars, playerVars, beatVars, calibVars, moreVars>>
notCalibVars == <<schedVars, syncVars, playerVars, beatVars, latencyVars, moreVars>>
notPickVars == <<schedVars, syncVars, playerVars, beatVars, latencyVars, calibVars,
                 synthVars, fieldVars, lastVars>>
notSynthVars == <<schedVars, syncVars, playerVars, beatVars, latencyVars, calibVars,
                  pickVars, fieldVars, lastVars>>
notFieldVars == <<schedVars, syncVars, playerVars, beatVars, latencyVars, calibVars,
                  pickVars, synthVars, lastVars>>
firstVars == <<schedVars, syncVars, playerVars, beatVars, latencyVars, calibVars,
               pickVars, synthVars, fieldVars>>
notTwinVars == <<firstVars, pulseVars>>
notPulseVars == <<firstVars, twinVars>>

vars == <<schedVars, syncVars, extraVars>>

(***************************************************************************)
(* beat-time.js                                                            *)
(***************************************************************************)
getTickLengthMs(rawTickLength) ==
    IF ~IsFinite(rawTickLength) \/ rawTickLength <= 0
    THEN DEFAULT_TICK_LENGTH_US
    ELSE IF rawTickLength > 1000 THEN rawTickLength ELSE rawTickLength * 1000

getBeatWindowMs(rawTickLength) == getTickLengthMs(rawTickLength) * TICKS_PER_BEAT

\* Math.floor(a / b) for b > 0 (TLA+'s \div rounds towards minus infinity).
TruncDiv(a, b) == IF a >= 0 THEN a \div b ELSE -((-a) \div b)

FloorDiv(a, b) == a \div b

\* Number(x || 0): a missing or NaN value counts as 0.
NumberOr0(x) == IF IsFinite(x) THEN x ELSE 0

\* The variant reads the local clock and leaves the clock offset out.
getAbsoluteBeatLocal(ps, localNow) ==
    LET beatWindowMs == getBeatWindowMs(ps.tickLength)
    IN  IF beatWindowMs <= 0 \/ ~IsFinite(ps.lastDownBeatTime)
        THEN 0
        ELSE FloorDiv(localNow - ps.lastDownBeatTime, beatWindowMs)

getAbsoluteBeatNow(ps, localNow) ==
    LET nowTime == localNow + NumberOr0(ps.clockOffset)
        beatWindowMs == getBeatWindowMs(ps.tickLength)
    IN  IF beatWindowMs <= 0 \/ ~IsFinite(ps.lastDownBeatTime)
        THEN 0
        ELSE FloorDiv(nowTime - ps.lastDownBeatTime, beatWindowMs)

\* a % n of JavaScript for n > 0: the remainder has the sign of a.
JsRem(a, n) == IF a >= 0 THEN a % n ELSE -((-a) % n)

\* Math.trunc of a raw value carried in halves.
Trunc(h) == IF h >= 0 THEN h \div 2 ELSE -((-h) \div 2)

\* Math.max(1, Math.trunc(Number(pulseState.numBarBeats) || 4)), the raw
\* value carried in halves: a missing value, NaN and 0 give 4.
BarBeats(rawNumBarBeats) ==
    IF Trunc(IF ~IsFinite(rawNumBarBeats) \/ rawNumBarBeats = 0
             THEN 2 * 4 ELSE rawNumBarBeats) >= 1
    THEN Trunc(IF ~IsFinite(rawNumBarBeats) \/ rawNumBarBeats = 0
               THEN 2 * 4 ELSE rawNumBarBeats)
    ELSE 1

\* ((absoluteBeat % numBarBeats) + numBarBeats) % numBarBeats
WrapOnce(absoluteBeat, numBarBeats) == JsRem(absoluteBeat, numBarBeats)

Wrap(absoluteBeat, numBarBeats) ==
    JsRem(JsRem(absoluteBeat, numBarBeats) + numBarBeats, numBarBeats)

getBeatInBar(ps, localNow) ==
    Wrap(getAbsoluteBeatNow(ps, localNow), BarBeats(ps.numBarBeats)) + 1

(***************************************************************************)
(* perform-event-scheduler.js                                              *)
(***************************************************************************)
compareEvents(left, right) ==
    IF left.absoluteBeat # right.absoluteBeat
    THEN left.absoluteBeat - right.absoluteBeat
    ELSE left.eventId - right.eventId

\* Array.prototype.sort(compareEvents): a stable sort, here by insertion.
RECURSIVE InsertSorted(_, _)
InsertSorted(sorted, e) ==
    IF sorted = <<>> THEN <<e>>
    ELSE IF compareEvents(e, sorted[Len(sorted)]) >= 0
         THEN Append(sorted, e)
         ELSE Append(InsertSorted(SubSeq(sorted, 1, Len(sorted) - 1), e),
                     sorted[Len(sorted)])

\* A bug: the queue is left in arrival order.
SortEventsNone(q) == q

RECURSIVE SortEvents(_)
SortEvents(q) ==
    IF q = <<>> THEN <<>>
    ELSE InsertSorted(SortEvents(SubSeq(q, 1, Len(q) - 1)), q[Len(q)])

\* The values enqueue() may be called with, in halves: whole and fractional
\* ids and beats, and an event with a non-finite id or a non-finite beat.
EventIdInputs == {3} \cup {2 * i : i \in 1..MaxId}
BeatInputs == {1} \cup {2 * b : b \in 0..MaxBeat}
EventInputs ==
    [eventId : EventIdInputs, absoluteBeat : BeatInputs]
        \cup {[eventId |-> NaN, absoluteBeat |-> 0],
              [eventId |-> 2, absoluteBeat |-> NaN]}

\* A bug: the seen-id set is never consulted.
HasSeenNever(eventId) == FALSE

\* seenEventIds.has(eventId)
HasSeen(eventId) == eventId \in seenEventIds

\* enqueue's guard: both fields finite and the id not seen.
EnqueueAccepts(event) ==
    /\ IsFinite(event.eventId)
    /\ IsFinite(event.absoluteBeat)
    /\ Trunc(event.eventId) \notin seenEventIds

enqueue(event) ==
    LET eventId == IF IsFinite(event.eventId) THEN Trunc(event.eventId) ELSE NaN
        absoluteBeat == IF IsFinite(event.absoluteBeat)
                        THEN Trunc(event.absoluteBeat) ELSE NaN
    IN  IF ~IsFinite(eventId) \/ ~IsFinite(absoluteBeat)
        THEN /\ enqueueReturn' = "false"
             /\ sinkLog' = <<>>
             /\ UNCHANGED <<timerId, nextEventCursor, events, seenEventIds,
                            deferredEventIds, running, liveTimers, now, pulseState,
                            latencySeconds, audioNow, handed, lateEnqueue>>
        ELSE IF HasSeen(eventId)
        THEN /\ enqueueReturn' = "false"
             /\ sinkLog' = <<>>
             /\ UNCHANGED <<timerId, nextEventCursor, events, seenEventIds,
                            deferredEventIds, running, liveTimers, now, pulseState,
                            latencySeconds, audioNow, handed, lateEnqueue>>
        ELSE /\ seenEventIds' = seenEventIds \cup {eventId}
             /\ events' = SortEvents(Append(events,
                              [eventId |-> eventId, absoluteBeat |-> absoluteBeat]))
             /\ enqueueReturn' = "true"
             /\ lateEnqueue' = (lateEnqueue \/ handed # <<>>)
             /\ sinkLog' = <<>>
             /\ UNCHANGED <<timerId, nextEventCursor, deferredEventIds, running,
                            liveTimers, now, pulseState, latencySeconds, audioNow,
                            handed>>

\* Milliseconds of latency compensation, in microseconds:
\* Math.max(0, Math.min(2000, Number(getLatencySeconds()) * 1000 || 0)).
LatencyMsUnclamped == NumberOr0(latencySeconds)

LatencyMs ==
    LET raw == NumberOr0(latencySeconds)
        capped == IF raw < MAX_LATENCY_MS * 1000 THEN raw ELSE MAX_LATENCY_MS * 1000
    IN  IF capped > 0 THEN capped ELSE 0

ServerNow == now + NumberOr0(pulseState.clockOffset)

HorizonServerMs ==
    ServerNow + SCHEDULER_LOOKAHEAD_MS * 1000 + LatencyMs + SCHEDULER_GUARD_MS * 1000

BeatServerTime(event) ==
    pulseState.lastDownBeatTime
        + event.absoluteBeat * getBeatWindowMs(pulseState.tickLength)

WhenSec(event) ==
    audioNow + (BeatServerTime(event) - ServerNow) - LatencyMs

\* tick's early returns after the running test: no valid beat window, no
\* finite downbeat time, or no finite audio clock.
TickReady ==
    /\ getBeatWindowMs(pulseState.tickLength) > 0
    /\ IsFinite(pulseState.lastDownBeatTime)
    /\ IsFinite(audioNow)

\* The while loop of tick.  The sink accepts the first `budget` events it
\* is offered and answers false to the next one.
RECURSIVE TickLoop(_, _, _, _)
TickLoop(cursor, deferred, log, budget) ==
    IF cursor >= Len(events)
    THEN [cursor |-> cursor, deferred |-> deferred, log |-> log]
    ELSE LET event == events[cursor + 1] IN
         IF BeatServerTime(event) > HorizonServerMs
         THEN [cursor |-> cursor, deferred |-> deferred, log |-> log]
         ELSE IF budget = 0
         THEN [cursor |-> cursor,
               deferred |-> deferred \cup {event.eventId},
               log |-> Append(log, [event |-> event, handled |-> FALSE,
                                    whenSec |-> WhenSec(event)])]
         ELSE TickLoop(cursor + 1, deferred \ {event.eventId},
                       Append(log, [event |-> event, handled |-> TRUE,
                                    whenSec |-> WhenSec(event)]),
                       budget - 1)

\* The events of a call log that the sink accepted.
RECURSIVE Accepted(_)
Accepted(log) ==
    IF log = <<>> THEN <<>>
    ELSE LET rest == Accepted(SubSeq(log, 1, Len(log) - 1))
             last == log[Len(log)]
         IN  IF last.handled THEN Append(rest, last.event) ELSE rest

\* The test after the loop: the cursor is past the last event of a queue
\* that is not empty.  The variant never compacts.
CompactsNever(cursor) == FALSE

Compacts(cursor) == cursor > 0 /\ cursor >= Len(events)

\* The body of tick once `running` is known to hold.
TickBody(budget) ==
    IF ~TickReady
    THEN /\ sinkLog' = <<>>
         /\ UNCHANGED <<nextEventCursor, events, deferredEventIds, handed>>
    ELSE LET r == TickLoop(nextEventCursor, deferredEventIds, <<>>, budget)
             compact == Compacts(r.cursor)
         IN  /\ deferredEventIds' = r.deferred
             /\ sinkLog' = r.log
             /\ handed' = handed \o Accepted(r.log)
             /\ events' = IF compact THEN <<>> ELSE events
             /\ nextEventCursor' = IF compact THEN 0 ELSE r.cursor

\* The interval timer fires and calls tick.
tick(budget) ==
    /\ liveTimers > 0
    /\ IF ~running
       THEN /\ sinkLog' = <<>>
            /\ UNCHANGED <<nextEventCursor, events, deferredEventIds, handed>>
       ELSE TickBody(budget)
    /\ enqueueReturn' = "none"
    /\ UNCHANGED <<timerId, seenEventIds, running, liveTimers, now, pulseState,
                   latencySeconds, audioNow, lateEnqueue>>

start(budget) ==
    IF running
    THEN /\ sinkLog' = <<>>
         /\ enqueueReturn' = "none"
         /\ UNCHANGED <<timerId, nextEventCursor, events, seenEventIds,
                        deferredEventIds, running, liveTimers, now, pulseState,
                        latencySeconds, audioNow, handed, lateEnqueue>>
    ELSE /\ running' = TRUE
         /\ TickBody(budget)
         /\ timerId' = 1
         /\ liveTimers' = liveTimers + 1
         /\ enqueueReturn' = "none"
         /\ UNCHANGED <<seenEventIds, now, pulseState, latencySeconds, audioNow,
                        lateEnqueue>>

\* A bug: stop() forgets clearInterval.
stopKeepsTimer ==
    /\ running' = FALSE
    /\ timerId' = 0
    /\ UNCHANGED <<liveTimers, nextEventCursor, events, seenEventIds,
                   deferredEventIds, now, pulseState, latencySeconds, audioNow,
                   handed, lateEnqueue>>
    /\ sinkLog' = <<>>
    /\ enqueueReturn' = "none"

\* A bug: stop() wipes the queue as clear() does.
stopClearsQueue ==
    /\ running' = FALSE
    /\ IF timerId # 0
       THEN liveTimers' = liveTimers - 1 /\ timerId' = 0
       ELSE UNCHANGED <<liveTimers, timerId>>
    /\ events' = <<>>
    /\ nextEventCursor' = 0
    /\ seenEventIds' = {}
    /\ deferredEventIds' = {}
    /\ UNCHANGED <<now, pulseState, latencySeconds, audioNow, handed,
                   lateEnqueue>>
    /\ sinkLog' = <<>>
    /\ enqueueReturn' = "none"

stop ==
    /\ running' = FALSE
    /\ IF timerId # 0
       THEN liveTimers' = liveTimers - 1 /\ timerId' = 0
       ELSE UNCHANGED <<liveTimers, timerId>>
    /\ UNCHANGED <<nextEventCursor, events, seenEventIds, deferredEventIds, now,
                   pulseState, latencySeconds, audioNow, handed,
                   lateEnqueue>>
    /\ sinkLog' = <<>>
    /\ enqueueReturn' = "none"

clear ==
    /\ events' = <<>>
    /\ nextEventCursor' = 0
    /\ seenEventIds' = {}
    /\ deferredEventIds' = {}
    /\ handed' = <<>>
    /\ lateEnqueue' = FALSE
    /\ UNCHANGED <<timerId, running, liveTimers, now, pulseState, latencySeconds,
                   audioNow>>
    /\ sinkLog' = <<>>
    /\ enqueueReturn' = "none"

destroy ==
    /\ running' = FALSE
    /\ IF timerId # 0
       THEN liveTimers' = liveTimers - 1 /\ timerId' = 0
       ELSE UNCHANGED <<liveTimers, timerId>>
    /\ events' = <<>>
    /\ nextEventCursor' = 0
    /\ seenEventIds' = {}
    /\ deferredEventIds' = {}
    /\ handed' = <<>>
    /\ lateEnqueue' = FALSE
    /\ UNCHANGED <<now, pulseState, latencySeconds, audioNow>>
    /\ sinkLog' = <<>>
    /\ enqueueReturn' = "none"

\* The local clock and the audio clock move on together.
AdvanceTime ==
    /\ now < MaxNowSteps * TimeStepUs
    /\ now' = now + TimeStepUs
    /\ audioNow' = IF IsFinite(audioNow) THEN audioNow + TimeStepUs ELSE audioNow
    /\ UNCHANGED <<timerId, nextEventCursor, events, seenEventIds, deferredEventIds,
                   running, liveTimers, pulseState, latencySeconds, handed,
                   lateEnqueue>>
    /\ sinkLog' = <<>>
    /\ enqueueReturn' = "none"
    /\ UNCHANGED <<syncVars, extraVars>>

\* What getPulseState(), getLatencySeconds() and getAudioCurrentTime()
\* return changes: a pulse state with no tick length, one with no downbeat
\* time, one with a later downbeat and a clock offset; a latency that is
\* missing, negative or 3 s; an audio clock that is missing or runs.
SchedPulseInputs ==
    {[tickLength |-> 20833, lastDownBeatTime |-> 0, clockOffset |-> 0],
     [tickLength |-> NaN, lastDownBeatTime |-> 0, clockOffset |-> 0],
     [tickLength |-> 20833, lastDownBeatTime |-> NaN, clockOffset |-> 0],
     [tickLength |-> 20833, lastDownBeatTime |-> 250 * 1000,
      clockOffset |-> 0 - 100 * 1000]}

LatencyInputs == {NaN, 0 - 1000 * 1000, 3 * 1000 * 1000}

TimingChanges ==
    /\ \/ /\ \E ps \in SchedPulseInputs : pulseState' = ps
          /\ UNCHANGED <<latencySeconds, audioNow>>
       \/ /\ \E latency \in LatencyInputs : latencySeconds' = latency
          /\ UNCHANGED <<pulseState, audioNow>>
       \/ /\ \E audio \in {NaN, now} : audioNow' = audio
          /\ UNCHANGED <<pulseState, latencySeconds>>
    /\ UNCHANGED <<timerId, nextEventCursor, events, seenEventIds, deferredEventIds,
                   running, liveTimers, now, handed, lateEnqueue>>
    /\ sinkLog' = <<>>
    /\ enqueueReturn' = "none"
    /\ UNCHANGED <<syncVars, extraVars>>

SchedInit ==
    /\ timerId = 0
    /\ nextEventCursor = 0
    /\ events = <<>>
    /\ seenEventIds = {}
    /\ deferredEventIds = {}
    /\ running = FALSE
    /\ liveTimers = 0
    /\ now = 0
    /\ pulseState = [tickLength |-> 20833, lastDownBeatTime |-> 0, clockOffset |-> 0]
    /\ latencySeconds = 0
    /\ audioNow = 0
    /\ sinkLog = <<>>
    /\ handed = <<>>
    /\ enqueueReturn = "none"
    /\ lateEnqueue = FALSE

\* How many offers the sink accepts before it answers false.
SinkBudgets == 0..(Len(events) - nextEventCursor)

Enqueue == (\E event \in EventInputs : enqueue(event)) /\ UNCHANGED <<syncVars, extraVars>>
Tick == (\E budget \in SinkBudgets : tick(budget)) /\ UNCHANGED <<syncVars, extraVars>>
Start == (\E budget \in SinkBudgets : start(budget)) /\ UNCHANGED <<syncVars, extraVars>>
Stop == stop /\ UNCHANGED <<syncVars, extraVars>>
Clear == clear /\ UNCHANGED <<syncVars, extraVars>>
Destroy == destroy /\ UNCHANGED <<syncVars, extraVars>>

(***************************************************************************)
(* pulse-transport-client.js                                               *)
(*                                                                         *)
(* The estimate is a quotient of sums of quotients; the model computes it  *)
(* in exact rationals <<numerator, denominator>>, denominator positive,    *)
(* in lowest terms.  The model keeps which timers are armed, not their     *)
(* delays: an armed timer may fire at any moment.                          *)
(***************************************************************************)
Abs(x) == IF x < 0 THEN -x ELSE x
Max2(a, b) == IF a >= b THEN a ELSE b

RECURSIVE Gcd(_, _)
Gcd(a, b) == IF b = 0 THEN a ELSE Gcd(b, a % b)

Rat(n, d) == LET g == Gcd(Abs(n), d) IN <<n \div g, d \div g>>
RatAdd(p, q) == Rat(p[1] * q[2] + q[1] * p[2], p[2] * q[2])
RatScale(k, p) == Rat(k * p[1], p[2])
RatDiv(p, q) == Rat(p[1] * q[2], p[2] * q[1])

\* null, what chooseClockOffsetEstimate returns when it has no estimate.
NoEstimate == <<NaN, 1>>
IsFiniteEstimate(estimate) == IsFinite(estimate[1])

Sockets == 1..MaxSockets

\* clearPendingPings: every pending request's timeout is cleared.
PendingTimeoutIds == {pendingPings[id].timeoutId : id \in DOMAIN pendingPings}
NoPendingPings == [id \in {} |-> [sentAt |-> 0, timeoutId |-> 0]]

\* A bound variable holds a value TLC has computed, a LET definition is
\* computed again wherever it is used: the one-element sets below bind what
\* the code holds in a local variable.

\* [...syncSamples].sort((left, right) => left.roundTripTime - right.roundTripTime):
\* the sort is stable, so the place of a sample is the number of samples the
\* comparator puts in front of it plus the equal ones that came before it.
PlaceByArrival(samples, i) == i

PlaceByRtt(samples, i) ==
    1 + Cardinality({j \in DOMAIN samples :
            \/ samples[j].roundTripTime - samples[i].roundTripTime < 0
            \/ /\ samples[j].roundTripTime - samples[i].roundTripTime = 0
               /\ j < i})

SortByRtt(samples) ==
    CHOOSE ordered \in
        {SubSeq([r \in DOMAIN samples |->
                    samples[CHOOSE i \in DOMAIN samples : place[i] = r]],
                1, Len(samples)) :
            place \in {SubSeq([i \in DOMAIN samples |-> PlaceByRtt(samples, i)],
                              1, Len(samples))}} : TRUE

\* Math.max(1, Math.ceil(ordered.length / 2))
UsedCountAll(n) == n

UsedCount(n) == Max2(1, (n + 1) \div 2)

\* 1 / Math.max(0.5, sample.roundTripTime), roundTripTime in microseconds.
Weight(sample) == Rat(1000, Max2(500, sample.roundTripTime))

\* The loop's sums over used[lo..hi].  Addition of rationals is associative,
\* so the sums are taken by halves.
RECURSIVE WeightedSums(_, _, _)
WeightedSums(used, lo, hi) ==
    IF lo = hi THEN
        [weightedOffset |-> RatScale(used[lo].clockOffset, Weight(used[lo])),
         totalWeight |-> Weight(used[lo])]
    ELSE
        LET mid == (lo + hi) \div 2
            left == WeightedSums(used, lo, mid)
            right == WeightedSums(used, mid + 1, hi)
        IN [weightedOffset |-> RatAdd(left.weightedOffset, right.weightedOffset),
            totalWeight |-> RatAdd(left.totalWeight, right.totalWeight)]

chooseClockOffsetEstimate(samples) ==
    IF Len(samples) = 0 THEN NoEstimate
    ELSE CHOOSE estimate \in
        {IF sums.totalWeight[1] <= 0 THEN NoEstimate
         ELSE RatDiv(sums.weightedOffset, sums.totalWeight) :
            sums \in {WeightedSums(used, 1, Len(used)) :
                used \in {SubSeq(ordered, 1, UsedCount(Len(ordered))) :
                    ordered \in {SortByRtt(samples)}}}} : TRUE

\* The sync state every step but handleServerTime leaves alone.
estimateVars == <<clockOffset, syncSamples, sampledIds>>

\* No server_time message: what `delivered` holds after any other operation.
NoMessage == NaN

\* requestClockSync, the body of a burst timer.
requestClockSync ==
    IF ws = 0 \/ readyState[ws] # "open" THEN
        UNCHANGED <<nextPingId, pendingPings, pingTimeouts, requestsLeft>>
    ELSE
        LET sentAt == now
            requestId == nextPingId
        IN /\ requestsLeft > 0
           /\ requestsLeft' = requestsLeft - 1
           /\ nextPingId' = nextPingId + 1
           /\ pingTimeouts' = pingTimeouts \cup {requestId}
           /\ pendingPings' =
                 [id \in DOMAIN pendingPings \cup {requestId} |->
                     IF id = requestId
                     THEN [sentAt |-> sentAt, timeoutId |-> requestId]
                     ELSE pendingPings[id]]

\* One of the timers scheduleInitialClockSync has set fires.
BurstTimerFires ==
    /\ syncTimers > 0
    /\ syncTimers' = syncTimers - 1
    /\ requestClockSync
    /\ observerCalls' = <<>>
    /\ delivered' = NoMessage
    /\ deliveredInvalid' = FALSE
    /\ UNCHANGED <<ws, readyState, estimateVars, now, audioNow, schedState, extraVars>>

\* pendingPings.delete(requestId)
DeletePendingNot(pending, requestId) == pending

DeletePending(pending, requestId) ==
    [id \in DOMAIN pending \ {requestId} |-> pending[id]]

\* The timeout of a request fires: the request is forgotten.
PingTimeout(requestId) ==
    /\ requestId \in pingTimeouts
    /\ pingTimeouts' = pingTimeouts \ {requestId}
    /\ pendingPings' = DeletePending(pendingPings, requestId)
    /\ observerCalls' = <<>>
    /\ delivered' = NoMessage
    /\ deliveredInvalid' = FALSE
    /\ UNCHANGED <<ws, readyState, syncTimers, nextPingId, requestsLeft,
                   estimateVars, now, audioNow, schedState, extraVars>>

\* syncSamples.push(sample); if (syncSamples.length > MAX_SYNC_SAMPLES) shift()
PushSampleDropNewest(samples, sample) ==
    IF Len(samples) >= MAX_SYNC_SAMPLES THEN samples ELSE Append(samples, sample)

PushSample(samples, sample) ==
    LET pushed == Append(samples, sample)
    IN IF Len(pushed) > MAX_SYNC_SAMPLES THEN Tail(pushed) ELSE pushed

\* The requestId of a message: 0 stands for one that is missing or is neither
\* a string nor a number, which the handler turns into null.
HasPending(requestId) == requestId # 0 /\ requestId \in DOMAIN pendingPings

\* !Number.isFinite(t1) || !Number.isFinite(t2) || !Number.isFinite(t3) ||
\* !Number.isFinite(t4), negated.
StampsFiniteUnchecked(t1, t2, t3, t4) == TRUE

StampsFinite(t1, t2, t3, t4) ==
    IsFinite(t1) /\ IsFinite(t2) /\ IsFinite(t3) /\ IsFinite(t4)

handleServerTime(message) ==
    LET receivedAt == now
        requestId == message.requestId
    IN
    /\ delivered' = message.requestId
    /\ UNCHANGED <<ws, readyState, syncTimers, nextPingId, requestsLeft,
                   now, audioNow, schedState, extraVars>>
    /\ IF ~HasPending(requestId) THEN
          /\ observerCalls' = <<>>
          /\ deliveredInvalid' = FALSE
          /\ UNCHANGED <<pendingPings, pingTimeouts, estimateVars>>
       ELSE
          LET pending == pendingPings[requestId]
              t1 == IF IsFinite(message.clientSendTime)
                    THEN message.clientSendTime ELSE pending.sentAt
              t2 == message.serverReceiveTime
              t3 == message.serverSendTime
              t4 == receivedAt
          IN
          /\ pingTimeouts' = pingTimeouts \ {pending.timeoutId}
          /\ pendingPings' = DeletePending(pendingPings, requestId)
          /\ deliveredInvalid' = (\E stamp \in {t1, t2, t3, t4} : stamp = NaN)
          /\ IF ~StampsFinite(t1, t2, t3, t4) THEN
                /\ observerCalls' = <<>>
                /\ UNCHANGED estimateVars
             ELSE
                LET roundTripTime == Max2(0, (t4 - t1) - (t3 - t2))
                    sampleOffset == ((t2 - t1) + (t3 - t4)) \div 2
                    estimate == chooseClockOffsetEstimate(syncSamples')
                IN
                /\ syncSamples' = PushSample(syncSamples,
                                      [roundTripTime |-> roundTripTime,
                                       clockOffset |-> sampleOffset])
                /\ sampledIds' = sampledIds \cup {requestId}
                /\ IF ~IsFiniteEstimate(estimate) THEN
                      /\ observerCalls' = <<>>
                      /\ UNCHANGED clockOffset
                   ELSE
                      /\ clockOffset' = estimate
                      /\ observerCalls' =
                            <<[onClockOffsetChange |-> estimate,
                               roundTripTime |-> roundTripTime,
                               clockOffset |-> sampleOffset,
                               sampleCount |-> Len(syncSamples')]>>

ensureConnected ==
    /\ observerCalls' = <<>>
    /\ delivered' = NoMessage
    /\ deliveredInvalid' = FALSE
    /\ UNCHANGED <<syncTimers, nextPingId, pendingPings, pingTimeouts, requestsLeft,
                   estimateVars, now, audioNow, schedState, extraVars>>
    /\ IF ws # 0 /\ readyState[ws] \in {"open", "connecting"} THEN
          UNCHANGED <<ws, readyState>>
       ELSE
          \E socket \in Sockets :
             /\ readyState[socket] = "unused"
             /\ \A other \in Sockets : other < socket => readyState[other] # "unused"
             /\ ws' = socket
             /\ readyState' = [readyState EXCEPT ![socket] = "connecting"]

\* The "open" listener: scheduleInitialClockSync.
SocketOpen(socket) ==
    /\ readyState[socket] = "connecting"
    /\ readyState' = [readyState EXCEPT ![socket] = "open"]
    /\ syncTimers' = Len(INITIAL_SYNC_DELAYS_MS)
    /\ observerCalls' = <<>>
    /\ delivered' = NoMessage
    /\ deliveredInvalid' = FALSE
    /\ UNCHANGED <<ws, nextPingId, pendingPings, pingTimeouts, requestsLeft,
                   estimateVars, now, audioNow, schedState, extraVars>>

\* The "close" listener, of whichever socket closes.  The variant leaves
\* the burst timers and the pending requests as they are.
SocketCloseKeepsTimers(socket) ==
    /\ readyState[socket] \in {"connecting", "open", "closing"}
    /\ readyState' = [readyState EXCEPT ![socket] = "closed"]
    /\ ws' = 0
    /\ observerCalls' = <<>>
    /\ delivered' = NoMessage
    /\ deliveredInvalid' = FALSE
    /\ UNCHANGED <<syncTimers, pingTimeouts, pendingPings, nextPingId, requestsLeft,
                   estimateVars, now, audioNow, schedState, extraVars>>

SocketClose(socket) ==
    /\ readyState[socket] \in {"connecting", "open", "closing"}
    /\ readyState' = [readyState EXCEPT ![socket] = "closed"]
    /\ syncTimers' = 0
    /\ pingTimeouts' = pingTimeouts \ PendingTimeoutIds
    /\ pendingPings' = NoPendingPings
    /\ ws' = 0
    /\ observerCalls' = <<>>
    /\ delivered' = NoMessage
    /\ deliveredInvalid' = FALSE
    /\ UNCHANGED <<nextPingId, requestsLeft, estimateVars, now, audioNow,
                   schedState, extraVars>>

disconnect ==
    /\ syncTimers' = 0
    /\ pingTimeouts' = pingTimeouts \ PendingTimeoutIds
    /\ pendingPings' = NoPendingPings
    /\ IF ws # 0 THEN
          /\ ws' = 0
          /\ readyState' = [readyState EXCEPT ![ws] = "closing"]
       ELSE
          UNCHANGED <<ws, readyState>>
    /\ observerCalls' = <<>>
    /\ delivered' = NoMessage
    /\ deliveredInvalid' = FALSE
    /\ UNCHANGED <<nextPingId, requestsLeft, estimateVars, now, audioNow,
                   schedState, extraVars>>

\* The local clock moves on while sync messages are in flight.
SyncAdvanceTime ==
    /\ now < MaxSyncSteps * SyncStepUs
    /\ now' = now + SyncStepUs
    /\ audioNow' = IF IsFinite(audioNow) THEN audioNow + SyncStepUs ELSE audioNow
    /\ observerCalls' = <<>>
    /\ delivered' = NoMessage
    /\ deliveredInvalid' = FALSE
    /\ UNCHANGED <<ws, readyState, syncTimers, nextPingId, pendingPings,
                   pingTimeouts, requestsLeft, estimateVars, schedState, extraVars>>

\* The server_time messages a server may send: for a request in flight, for
\* one that is no longer (or never was) pending, or without a usable id; with
\* the client's stamp echoed, replaced or missing; with its own stamps present
\* or missing.
RequestIdInputs == {0} \cup (Max2(1, nextPingId - MaxPing)..nextPingId)
ClientSendTimeInputs == {NaN, 0}
ServerReceiveTimeInputs == {NaN, ServerBaseUs}
ServerSendTimeInputs == {NaN, ServerBaseUs, ServerBaseUs + SyncStepUs}
ServerTimeMessages ==
    [requestId : RequestIdInputs, clientSendTime : ClientSendTimeInputs,
     serverReceiveTime : ServerReceiveTimeInputs,
     serverSendTime : ServerSendTimeInputs]

\* handleSocketMessage of a server_time message, on a socket that is open.
DeliverServerTime ==
    /\ \E socket \in Sockets : readyState[socket] = "open"
    /\ \E message \in ServerTimeMessages : handleServerTime(message)

EnsureConnected == ensureConnected
Disconnect == disconnect
OpenSocket == \E socket \in Sockets : SocketOpen(socket)
CloseSocket == \E socket \in Sockets : SocketClose(socket)
TimeoutFires == \E requestId \in pingTimeouts : PingTimeout(requestId)

SyncInit ==
    /\ ws = 0
    /\ nextPingId = 1
    /\ clockOffset = <<0, 1>>
    /\ syncTimers = 0
    /\ pendingPings = NoPendingPings
    /\ syncSamples = <<>>
    /\ readyState = [socket \in Sockets |-> "unused"]
    /\ pingTimeouts = {}
    /\ requestsLeft = MaxPing
    /\ observerCalls = <<>>
    /\ delivered = NoMessage
    /\ deliveredInvalid = FALSE
    /\ sampledIds = {}

\* A client that has been syncing for a while: 59 replies became samples, the
\* socket has just opened again and the burst timers are set.
FullSample(i) ==
    [roundTripTime |-> (i % 3) * SyncStepUs, clockOffset |-> i * 1000]
FullHistory == [i \in 1..(MAX_SYNC_SAMPLES - 1) |-> FullSample(i)]

SyncInitFull ==
    /\ ws = 1
    /\ nextPingId = MAX_SYNC_SAMPLES
    /\ clockOffset = chooseClockOffsetEstimate(FullHistory)
    /\ syncTimers = Len(INITIAL_SYNC_DELAYS_MS)
    /\ pendingPings = NoPendingPings
    /\ syncSamples = FullHistory
    /\ readyState = [socket \in Sockets |-> IF socket = 1 THEN "open" ELSE "unused"]
    /\ pingTimeouts = {}
    /\ requestsLeft = MaxPing
    /\ observerCalls = <<>>
    /\ delivered = NoMessage
    /\ deliveredInvalid = FALSE
    /\ sampledIds = 1..(MAX_SYNC_SAMPLES - 1)

\* A client that has taken one or two samples, of round trips of 10 ms and
\* 50 ms and offsets of 80 ms and 100 ms; the socket is open and the burst
\* timers are set.
PairSamples == [roundTripTime : {10 * 1000, 50 * 1000},
                clockOffset : {80 * 1000, 100 * 1000}]
PairHistories ==
    {<<first>> : first \in PairSamples}
        \cup {<<first, second>> : first \in PairSamples, second \in PairSamples}

SyncInitPair ==
    /\ ws = 1
    /\ syncSamples \in PairHistories
    /\ nextPingId = Len(syncSamples) + 1
    /\ clockOffset = chooseClockOffsetEstimate(syncSamples)
    /\ syncTimers = Len(INITIAL_SYNC_DELAYS_MS)
    /\ pendingPings = NoPendingPings
    /\ readyState = [socket \in Sockets |-> IF socket = 1 THEN "open" ELSE "unused"]
    /\ pingTimeouts = {}
    /\ requestsLeft = MaxPing
    /\ observerCalls = <<>>
    /\ delivered = NoMessage
    /\ deliveredInvalid = FALSE
    /\ sampledIds = 1..Len(syncSamples)

(***************************************************************************)
(* The multi-track buffer player.                                          *)
(*                                                                         *)
(* A setTrackSource call runs up to its first await in one step and then   *)
(* waits, as a record in loads, for fetch, for the response body, for      *)
(* ensureContext and for decodeAudioData; each of them resolves or rejects *)
(* in a step of its own, in any order among the calls.  A decoded buffer   *)
(* is named by the URL it was fetched from; "" is null.                    *)
(***************************************************************************)
Tracks == 1..MaxTracks
\* String(url || "")
UrlInputs == {"", "a", "b"}
TrackIndexInputs == 0..MaxTracks
NoBuffer == ""
NoLoad == [slot |-> 0, token |-> 0, url |-> "", stage |-> "none", superseded |-> FALSE]
NoPlayerCall == [op |-> "none", trackIndex |-> 0, returned |-> FALSE]

\* The calls waiting on a slot; superseded records that a later call on the
\* slot asked for another source, for the same one before it was ready, or
\* for none.
Supersede(trackIndex) ==
    {IF load.slot = trackIndex THEN [load EXCEPT !.superseded = TRUE] ELSE load :
        load \in loads}

\* What a step of setTrackSource leaves alone.
LoadStep ==
    /\ playerCall' = NoPlayerCall
    /\ UNCHANGED <<sources, destroyed>>

setTrackSource(trackIndex, url) ==
    /\ settled' = NoLoad
    /\ LoadStep
    /\ UNCHANGED audioContext
    /\ IF trackIndex \notin Tracks THEN
          UNCHANGED <<tracks, loads>>
       ELSE IF url = "" THEN
          /\ tracks' = [tracks EXCEPT ![trackIndex].url = "",
                                      ![trackIndex].buffer = NoBuffer]
          /\ loads' = Supersede(trackIndex)
       ELSE IF tracks[trackIndex].url = url /\ tracks[trackIndex].buffer # NoBuffer THEN
          UNCHANGED <<tracks, loads>>
       ELSE
          LET token == tracks[trackIndex].loadToken + 1
          IN /\ token <= MaxLoads
             /\ tracks' = [tracks EXCEPT ![trackIndex].loadToken = token,
                                         ![trackIndex].url = url]
             /\ loads' = Supersede(trackIndex)
                    \cup {[slot |-> trackIndex, token |-> token, url |-> url,
                           stage |-> "fetch", superseded |-> FALSE]}

\* if (track.loadToken === token) { track.buffer = null; }
ClearIfCurrent(load) ==
    IF tracks[load.slot].loadToken = load.token
    THEN [tracks EXCEPT ![load.slot].buffer = NoBuffer]
    ELSE tracks

\* await fetch(...) resolves, with response.ok or without.
FetchResolves ==
    /\ UNCHANGED notPlayerVars
    /\ LoadStep
    /\ \E load \in loads, ok \in BOOLEAN :
        /\ load.stage = "fetch"
        /\ UNCHANGED audioContext
        /\ IF ok THEN
              /\ loads' = (loads \ {load}) \cup {[load EXCEPT !.stage = "body"]}
              /\ settled' = NoLoad
              /\ UNCHANGED tracks
           ELSE
              /\ tracks' = ClearIfCurrent(load)
              /\ loads' = loads \ {load}
              /\ settled' = load

\* ensureContext up to its await: "noCtor" when there is no AudioContext
\* constructor (or it throws), "blocked" when the context is there but
\* resume() will reject, "ready".  The context is made when none is held.
EnsureOutcomes == {"noCtor", "blocked", "ready"}
ensureContext(outcome) ==
    audioContext' = IF outcome = "noCtor" THEN audioContext ELSE TRUE

\* await response.arrayBuffer() resolves; ensureContext runs up to its await.
BodyResolves ==
    /\ UNCHANGED notPlayerVars
    /\ LoadStep
    /\ \E load \in loads, outcome \in EnsureOutcomes :
        /\ load.stage = "body"
        /\ ensureContext(outcome)
        /\ UNCHANGED tracks
        /\ IF outcome = "noCtor" THEN
              /\ loads' = loads \ {load}
              /\ settled' = load
           ELSE
              /\ loads' = (loads \ {load}) \cup
                    {[load EXCEPT !.stage = IF outcome = "ready" THEN "context"
                                            ELSE "blocked"]}
              /\ settled' = NoLoad

\* await ensureContext() resolves: with false after resume() rejected, or
\* with true, and then audioContext.decodeAudioData is called, which throws
\* into the catch block when destroy has set audioContext to null meanwhile.
ContextResolves ==
    /\ UNCHANGED notPlayerVars
    /\ LoadStep
    /\ \E load \in loads :
        /\ load.stage \in {"context", "blocked"}
        /\ UNCHANGED audioContext
        /\ IF load.stage = "context" /\ audioContext THEN
              /\ loads' = (loads \ {load}) \cup {[load EXCEPT !.stage = "decode"]}
              /\ settled' = NoLoad
              /\ UNCHANGED tracks
           ELSE
              /\ tracks' = IF load.stage = "blocked" THEN tracks ELSE ClearIfCurrent(load)
              /\ loads' = loads \ {load}
              /\ settled' = load

\* await audioContext.decodeAudioData(...) resolves.
DecodeResolves ==
    /\ UNCHANGED notPlayerVars
    /\ LoadStep
    /\ \E load \in loads :
        /\ load.stage = "decode"
        /\ UNCHANGED audioContext
        /\ loads' = loads \ {load}
        /\ settled' = load
        /\ tracks' = IF tracks[load.slot].loadToken # load.token THEN tracks
                     ELSE [tracks EXCEPT ![load.slot].buffer = load.url]

\* fetch, arrayBuffer or decodeAudioData rejects: the catch block.
LoadRejects ==
    /\ UNCHANGED notPlayerVars
    /\ LoadStep
    /\ \E load \in loads :
        /\ load.stage \in {"fetch", "body", "decode"}
        /\ UNCHANGED audioContext
        /\ tracks' = ClearIfCurrent(load)
        /\ loads' = loads \ {load}
        /\ settled' = load

\* setTrackSource called again for the URL the slot is to play, as the
\* perform view does on every notification of the app state.  The tokens
\* are only ever compared for equality and each call takes a token above
\* all before it: this step keeps 1 for the token of the slot's latest call
\* and 0 for the tokens of its calls before, so that calls without end stay
\* within finitely many states.
Reload(trackIndex, url) ==
    /\ settled' = NoLoad
    /\ LoadStep
    /\ UNCHANGED audioContext
    /\ IF tracks[trackIndex].url = url /\ tracks[trackIndex].buffer # NoBuffer THEN
          UNCHANGED <<tracks, loads>>
       ELSE
          /\ tracks' = [tracks EXCEPT ![trackIndex].loadToken = 1,
                                      ![trackIndex].url = url]
          /\ loads' = {IF load.slot = trackIndex
                       THEN [load EXCEPT !.token = 0, !.superseded = TRUE]
                       ELSE load : load \in loads}
                 \cup {[slot |-> trackIndex, token |-> 1, url |-> url,
                        stage |-> "fetch", superseded |-> FALSE]}

\* The calls a slot can have waiting under Reload.
ReloadRecords ==
    [slot : Tracks, token : {0, 1}, url : {"a"},
     stage : {"fetch", "body", "context", "decode"}, superseded : BOOLEAN]

\* The await the call `load` waits at completes with success: the fetch
\* with response.ok, the body, ensureContext with true, the decoding.
LoadAdvances(load) ==
    /\ load \in loads
    /\ FetchResolves \/ BodyResolves \/ ContextResolves \/ DecodeResolves
    /\ load \notin loads'
    /\ \A other \in loads \ {load} : other \in loads'
    /\ settled' = NoLoad \/ load.stage = "decode"
    /\ \A after \in loads' : after.stage # "blocked"

PlayerInit ==
    /\ tracks = [slot \in Tracks |->
                    [url |-> "", buffer |-> NoBuffer, loadToken |-> 0, source |-> 0]]
    /\ audioContext = FALSE
    /\ loads = {}
    /\ sources = <<>>
    /\ settled = NoLoad
    /\ playerCall = NoPlayerCall
    /\ destroyed = FALSE

SetTrackSource ==
    /\ \E trackIndex \in TrackIndexInputs, url \in UrlInputs :
          setTrackSource(trackIndex, url)
    /\ UNCHANGED notPlayerVars

\* The scheduled starts and stops.  They work on the slots and the source
\* nodes together, p = [tracks, sources, started]; the times they pass to
\* start() and stop() are finite and order nothing here.
\*
\* stopTrack: source.stop(...) and track.source = null; a stop() that throws
\* is caught.  The variant drops the reference and leaves the node playing.
stopTrackKeepPlaying(p, trackIndex) ==
    IF trackIndex \notin Tracks THEN p
    ELSE [p EXCEPT !.tracks[trackIndex].source = 0]

stopTrack(p, trackIndex) ==
    IF trackIndex \notin Tracks THEN p
    ELSE IF p.tracks[trackIndex].source = 0 THEN p
    ELSE [p EXCEPT !.tracks[trackIndex].source = 0,
                   !.sources[p.tracks[trackIndex].source].state =
                        IF @ = "ended" THEN "ended" ELSE "stopping"]

RECURSIVE stopAll(_, _)
stopAll(p, i) ==
    IF i > MaxTracks THEN p ELSE stopAll(stopTrack(p, i), i + 1)

\* startTrack: false without a context or a buffer; else a new node is
\* started and becomes the slot's source.  The variant starts a node on a
\* slot without a buffer as well.
startTrackUnguarded(p, context, trackIndex) ==
    IF ~context \/ trackIndex \notin Tracks THEN [p EXCEPT !.started = FALSE]
    ELSE [tracks |-> [p.tracks EXCEPT ![trackIndex].source = Len(p.sources) + 1],
          sources |-> Append(p.sources, [slot |-> trackIndex, state |-> "playing"]),
          started |-> TRUE]

startTrack(p, context, trackIndex) ==
    IF ~context \/ trackIndex \notin Tracks THEN [p EXCEPT !.started = FALSE]
    ELSE IF p.tracks[trackIndex].buffer = NoBuffer THEN [p EXCEPT !.started = FALSE]
    ELSE [tracks |-> [p.tracks EXCEPT ![trackIndex].source = Len(p.sources) + 1],
          sources |-> Append(p.sources, [slot |-> trackIndex, state |-> "playing"]),
          started |-> TRUE]

\* The loop of schedulePlay from slot i on; started counts the starts.
RECURSIVE startAll(_, _, _, _)
startAll(p, context, i, started) ==
    IF i > MaxTracks THEN [p EXCEPT !.started = started]
    ELSE LET q == startTrack(p, context, i)
         IN startAll(q, context, i + 1, started + (IF q.started THEN 1 ELSE 0))

Playback == [tracks |-> tracks, sources |-> sources, started |-> FALSE]

\* What a call on the playback side leaves alone.
PlaybackStep ==
    /\ settled' = NoLoad
    /\ UNCHANGED loads
    /\ UNCHANGED notPlayerVars

schedulePlay ==
    /\ PlaybackStep
    /\ \E p \in {startAll(stopAll(Playback, 1), audioContext, 1, 0)} :
        /\ Len(p.sources) <= MaxSources
        /\ tracks' = p.tracks
        /\ sources' = p.sources
        /\ playerCall' = [op |-> "schedulePlay", trackIndex |-> 0,
                          returned |-> p.started > 0]
    /\ UNCHANGED <<audioContext, destroyed>>

scheduleJump ==
    /\ PlaybackStep
    /\ \E trackIndex \in TrackIndexInputs :
       \E p \in {startTrack(stopTrack(Playback, trackIndex), audioContext, trackIndex)} :
        /\ Len(p.sources) <= MaxSources
        /\ tracks' = p.tracks
        /\ sources' = p.sources
        /\ playerCall' = [op |-> "scheduleJump", trackIndex |-> trackIndex,
                          returned |-> p.started]
    /\ UNCHANGED <<audioContext, destroyed>>

schedulePause ==
    /\ PlaybackStep
    /\ \E p \in {stopAll(Playback, 1)} :
        /\ tracks' = p.tracks
        /\ sources' = p.sources
    /\ playerCall' = [op |-> "schedulePause", trackIndex |-> 0, returned |-> FALSE]
    /\ UNCHANGED <<audioContext, destroyed>>

\* getAudioCurrentTime: NaN without a context; returned tells that a time
\* was returned.
getAudioCurrentTime ==
    /\ PlaybackStep
    /\ playerCall' = [op |-> "getAudioCurrentTime", trackIndex |-> 0,
                      returned |-> audioContext]
    /\ UNCHANGED <<tracks, sources, audioContext, destroyed>>

\* unlock: ensureContext up to its await; what resume() does later changes
\* nothing the player holds.
unlock ==
    /\ PlaybackStep
    /\ \E outcome \in EnsureOutcomes :
        /\ ensureContext(outcome)
        /\ playerCall' = [op |-> "unlock", trackIndex |-> 0,
                          returned |-> outcome = "ready"]
    /\ destroyed' = FALSE
    /\ UNCHANGED <<tracks, sources>>

\* destroy of the player.
destroyPlayer ==
    /\ PlaybackStep
    /\ \E p \in {stopAll(Playback, 1)} :
        /\ tracks' = p.tracks
        /\ sources' = p.sources
    /\ audioContext' = FALSE
    /\ destroyed' = TRUE
    /\ playerCall' = [op |-> "destroy", trackIndex |-> 0, returned |-> FALSE]

\* The ended event of a node, at the end of its buffer or at its stop time:
\* source.onended clears the slot's reference when it still is this node.
\* The variant clears the reference whichever node the slot holds.
SourceEndedClearsSlot ==
    /\ PlaybackStep
    /\ \E id \in DOMAIN sources :
        /\ sources[id].state # "ended"
        /\ sources' = [sources EXCEPT ![id].state = "ended"]
        /\ tracks' = [tracks EXCEPT ![sources[id].slot].source = 0]
    /\ playerCall' = [op |-> "ended", trackIndex |-> 0, returned |-> FALSE]
    /\ UNCHANGED <<audioContext, destroyed>>

SourceEnded ==
    /\ PlaybackStep
    /\ \E id \in DOMAIN sources :
        /\ sources[id].state # "ended"
        /\ sources' = [sources EXCEPT ![id].state = "ended"]
        /\ tracks' = IF tracks[sources[id].slot].source = id
                      THEN [tracks EXCEPT ![sources[id].slot].source = 0]
                      ELSE tracks
    /\ playerCall' = [op |-> "ended", trackIndex |-> 0, returned |-> FALSE]
    /\ UNCHANGED <<audioContext, destroyed>>

(***************************************************************************)
(* The beat display.                                                       *)
(*                                                                         *)
(* mountBeatDisplay renders once and then on every animation frame.  A     *)
(* render reads the clock twice, in getBeatInBar and then in               *)
(* getAbsoluteBeatNow; frames come a third of a beat window or a whole one *)
(* apart, and the second reading is the same microsecond or the next.      *)
(***************************************************************************)
\* The pulse states: tick lengths missing, 0, negative, in milliseconds and
\* in microseconds; downbeat times missing, now, 5 microseconds and a second
\* ahead; numBarBeats in halves: missing, 0, 0.5, -2, 1, 2.5, 3, 4.
PulseInputs ==
    [tickLength : {NaN, 0, 0 - 5, 20, 20833},
     lastDownBeatTime : {NaN, 0, 5, 1000 * 1000},
     clockOffset : {NaN, 0, 0 - 1000},
     numBarBeats : {NaN, 0, 1, 0 - 4, 2, 5, 6, 8}]

FrameGaps == {getBeatWindowMs(displayPulse.tickLength) \div 3,
              getBeatWindowMs(displayPulse.tickLength)}

\* What render leaves behind when it read the clock at firstNow and secondNow
\* and the beat it had was previous.
Rendered(ps, firstNow, secondNow, previous, wasDownbeat) ==
    [beatInBar |-> getBeatInBar(ps, firstNow),
     absoluteBeat |-> getAbsoluteBeatNow(ps, secondNow),
     downbeat |-> IF getAbsoluteBeatNow(ps, secondNow) # previous
                  THEN getBeatInBar(ps, firstNow) = 1 ELSE wasDownbeat]

render ==
    /\ rafId # 0
    /\ \E frameGap \in FrameGaps, readGap \in {0, 1} :
          /\ inBarReadAt' = beatReadAt + frameGap
          /\ beatReadAt' = inBarReadAt' + readGap
          /\ beatReadAt' <=
                MaxBeatSpan * getBeatWindowMs(displayPulse.tickLength)
          /\ \E shown \in {Rendered(displayPulse, inBarReadAt', beatReadAt',
                                     lastAbsoluteBeat, downbeat)} :
                /\ beatInBar' = shown.beatInBar
                /\ lastAbsoluteBeat' = shown.absoluteBeat
                /\ downbeat' = shown.downbeat
    /\ UNCHANGED <<rafId, displayPulse>>
    /\ UNCHANGED notBeatVars

\* The function mountBeatDisplay returns: cancelAnimationFrame(rafId).
unmountBeatDisplay ==
    /\ rafId # 0
    /\ rafId' = 0
    /\ UNCHANGED <<lastAbsoluteBeat, beatInBar, downbeat, displayPulse,
                   inBarReadAt, beatReadAt>>
    /\ UNCHANGED notBeatVars

\* The display just mounted on the pulse state ps: render has run once, from
\* lastAbsoluteBeat = null.
BeatMounted(ps) ==
    /\ displayPulse = ps
    /\ rafId = 1
    /\ inBarReadAt = 0
    /\ beatReadAt = 0
    /\ beatInBar = Rendered(ps, 0, 0, NaN, FALSE).beatInBar
    /\ lastAbsoluteBeat = Rendered(ps, 0, 0, NaN, FALSE).absoluteBeat
    /\ downbeat = Rendered(ps, 0, 0, NaN, FALSE).downbeat

BeatInit ==
    BeatMounted([tickLength |-> 20833, lastDownBeatTime |-> 0, clockOffset |-> 0,
                 numBarBeats |-> 2 * 4])

(***************************************************************************)
(* The speaker latency value: speaker-latency-calibrator.js (clamps, read  *)
(* and persist helpers) and the setters of the app state.                  *)
(*                                                                         *)
(* Seconds are carried in microseconds.  A stored text is carried as the   *)
(* number parseFloat reads from it; toFixed(3) writes thousandths.         *)
(***************************************************************************)
Min2(a, b) == IF a <= b THEN a ELSE b

clampSpeakerLatencySeconds(value) ==
    IF ~IsFinite(value) THEN 0 ELSE Max2(0, Min2(MAX_SPEAKER_LATENCY_US, value))

clampSpeakerLatencyTrimNone(value) == IF ~IsFinite(value) THEN 0 ELSE value

clampSpeakerLatencyTrimSeconds(value) ==
    IF ~IsFinite(value) THEN 0 ELSE Max2(-MAX_TRIM_US, Min2(MAX_TRIM_US, value))

\* Number.parseFloat(raw || "") of the stored text, then the clamp.
readStoredSpeakerLatencyBaseSeconds ==
    IF ~hasStorage THEN 0 ELSE clampSpeakerLatencySeconds(storedBase)
readStoredSpeakerLatencyTrimSeconds ==
    IF ~hasStorage THEN 0 ELSE clampSpeakerLatencyTrimSeconds(storedTrim)

computeUnclampedSum(baseSeconds, trimSeconds) ==
    clampSpeakerLatencySeconds(baseSeconds + trimSeconds)

computeSpeakerLatencyCompensationSeconds(baseSeconds, trimSeconds) ==
    clampSpeakerLatencySeconds(
        clampSpeakerLatencySeconds(baseSeconds)
            + clampSpeakerLatencyTrimSeconds(trimSeconds))

\* value.toFixed(3) read back: the nearest thousandth, a tie going away
\* from 0.
ToFixed3(value) ==
    IF value >= 0 THEN ((value + 500) \div 1000) * 1000
    ELSE -((((-value) + 500) \div 1000) * 1000)

\* persistSpeakerLatencyBaseSeconds / persistSpeakerLatencyTrimSeconds: what
\* the item holds afterwards.
persistSpeakerLatencyBaseSeconds(seconds, item) ==
    IF ~hasStorage THEN item ELSE ToFixed3(clampSpeakerLatencySeconds(seconds))
persistSpeakerLatencyTrimSeconds(seconds, item) ==
    IF ~hasStorage THEN item ELSE ToFixed3(clampSpeakerLatencyTrimSeconds(seconds))

\* Arguments of the setters: not finite, negative, 0, 0.0005, 0.123456,
\* 0.2995, 1.9 and 2.5 seconds.
SecondsInputs == {NaN, 0 - 500000, 0, 500, 123456, 299500, 1900000, 2500000}

setSpeakerLatencyBaseSeconds ==
    /\ \E seconds \in SecondsInputs :
        \E clamped \in {clampSpeakerLatencySeconds(seconds)} :
          /\ speakerLatencyBaseSeconds' = clamped
          /\ speakerLatencyCompensationSeconds' =
                computeSpeakerLatencyCompensationSeconds(clamped, speakerLatencyTrimSeconds)
          /\ storedBase' = persistSpeakerLatencyBaseSeconds(clamped, storedBase)
          /\ latencyCall' = [op |-> "base", returned |-> clamped]
    /\ UNCHANGED <<speakerLatencyTrimSeconds, storedTrim, hasStorage>>
    /\ UNCHANGED notLatencyVars

setSpeakerLatencyTrimSeconds ==
    /\ \E seconds \in SecondsInputs :
        \E clampedTrim \in {clampSpeakerLatencyTrimSeconds(seconds)} :
          /\ speakerLatencyTrimSeconds' = clampedTrim
          /\ speakerLatencyCompensationSeconds' =
                computeSpeakerLatencyCompensationSeconds(speakerLatencyBaseSeconds, clampedTrim)
          /\ storedTrim' = persistSpeakerLatencyTrimSeconds(clampedTrim, storedTrim)
          /\ latencyCall' = [op |-> "trim", returned |-> clampedTrim]
    /\ UNCHANGED <<speakerLatencyBaseSeconds, storedBase, hasStorage>>
    /\ UNCHANGED notLatencyVars

setSpeakerLatencyCompensationSeconds ==
    /\ \E seconds \in SecondsInputs :
        \E clamped \in {clampSpeakerLatencySeconds(seconds)} :
          /\ speakerLatencyBaseSeconds' = clamped
          /\ speakerLatencyTrimSeconds' = 0
          /\ speakerLatencyCompensationSeconds' = clamped
          /\ storedBase' = persistSpeakerLatencyBaseSeconds(clamped, storedBase)
          /\ storedTrim' = persistSpeakerLatencyTrimSeconds(0, storedTrim)
          /\ latencyCall' = [op |-> "compensation", returned |-> clamped]
    /\ UNCHANGED hasStorage
    /\ UNCHANGED notLatencyVars

\* The state module evaluated (the page loaded) over the storage as it is.
LatencyLoaded ==
    [base |-> readStoredSpeakerLatencyBaseSeconds,
     trim |-> readStoredSpeakerLatencyTrimSeconds,
     compensation |->
        computeSpeakerLatencyCompensationSeconds(
            readStoredSpeakerLatencyBaseSeconds, readStoredSpeakerLatencyTrimSeconds)]

\* The page is loaded again.
loadState ==
    /\ speakerLatencyBaseSeconds' = LatencyLoaded.base
    /\ speakerLatencyTrimSeconds' = LatencyLoaded.trim
    /\ speakerLatencyCompensationSeconds' = LatencyLoaded.compensation
    /\ latencyCall' = [op |-> "load", returned |-> 0]
    /\ UNCHANGED <<storedBase, storedTrim, hasStorage>>
    /\ UNCHANGED notLatencyVars

\* The page loaded over a storage holding the texts base and trim.
LatencyStarted(base, trim, storage) ==
    /\ hasStorage = storage
    /\ storedBase = base
    /\ storedTrim = trim
    /\ speakerLatencyBaseSeconds = LatencyLoaded.base
    /\ speakerLatencyTrimSeconds = LatencyLoaded.trim
    /\ speakerLatencyCompensationSeconds = LatencyLoaded.compensation
    /\ latencyCall = [op |-> "load", returned |-> 0]

LatencyInit == LatencyStarted(NaN, NaN, TRUE)

(***************************************************************************)
(* The speaker latency calibrator.                                         *)
(*                                                                         *)
(* A calibrate call runs up to its first await in one step and then waits, *)
(* as a record in calls, for getUserMedia, for each trial, for the sleep   *)
(* after it and for audioContext.close(); each of them resolves or rejects *)
(* in a step of its own.  Trial latencies are whole milliseconds.          *)
(***************************************************************************)
trialCount == MaxTrials

\* What a trial resolves with: no detection (latencyMs null), 40 ms, 300 ms,
\* 1200 ms.
TrialInputs == {NaN, 40, 300, 1200}

\* [...values].sort((a, b) => a - b)
SortAscending(values) ==
    [r \in DOMAIN values |->
        values[CHOOSE i \in DOMAIN values :
            r = 1 + Cardinality({j \in DOMAIN values :
                        \/ values[j] < values[i]
                        \/ values[j] = values[i] /\ j < i})]]

RECURSIVE SumOf(_, _)
SumOf(values, squared) ==
    IF values = <<>> THEN 0
    ELSE (IF squared THEN Head(values) * Head(values) ELSE Head(values))
            + SumOf(Tail(values), squared)

\* spread > 120 || std > 55, std the population deviation of meanAndStd:
\* std > 55 when n * sum(x^2) - sum(x)^2 > 55^2 * n^2.
IsUnstable(validTrials) ==
    LET n == Len(validTrials)
        p20 == validTrials[((n - 1) \div 5) + 1]
        p80 == validTrials[((4 * (n - 1)) \div 5) + 1]
    IN \/ p80 - p20 > 120
       \/ n * SumOf(validTrials, TRUE) - SumOf(validTrials, FALSE) * SumOf(validTrials, FALSE)
             > 55 * 55 * n * n

\* Math.max(1, Math.ceil(validTrials.length * 0.35)), with the whole
\* cluster as the variant.
LowClusterCountAll(length) == Max2(1, length)

LowClusterCount(length) == Max2(1, (35 * length + 99) \div 100)

\* The value calibrate returns after the trials: null with a status text, or
\* the pickReturn latency.
PickLatency(trials, contextLatencyMs) ==
    LET validTrials ==
            SortAscending(SelectSeq(trials,
                LAMBDA ms : ms >= MIN_VALID_TRIAL_MS /\ ms <= MAX_VALID_TRIAL_MS))
        lowClusterCount == LowClusterCount(Len(validTrials))
        median == validTrials[(lowClusterCount \div 2) + 1]
        fallbackCapMs == IF contextLatencyMs > 0
                         THEN Max2(45, contextLatencyMs + 45) ELSE 160
        pickedMs == IF IsUnstable(validTrials) THEN Min2(median, fallbackCapMs)
                    ELSE median
    IN IF Len(trials) = 0 THEN
          [outcome |-> "null", status |-> "no audible detection", seconds |-> 0]
       ELSE IF Len(validTrials) = 0 THEN
          [outcome |-> "null", status |-> "unstable detection", seconds |-> 0]
       ELSE
          [outcome |-> "result", status |-> "calibrated",
           seconds |-> clampSpeakerLatencySeconds(
                          Max2(0, Min2(MAX_AUTO_LATENCY_MS, pickedMs)) * 1000)]

NoCalibEvent == [op |-> "none", outcome |-> "", seconds |-> 0]

\* if (isRunning) { ...; return null; }
BusyNever == FALSE

Busy == isRunning

\* calibrate() up to its first await; hasMicApi and hasAudioApi say whether
\* navigator.mediaDevices.getUserMedia and an AudioContext constructor exist.
calibrate ==
    /\ UNCHANGED notCalibVars
    /\ UNCHANGED <<liveStreams, openContexts>>
    /\ \E hasMicApi \in BOOLEAN, hasAudioApi \in BOOLEAN :
        IF Busy THEN
            /\ calibEvent' = [op |-> "calibrate", outcome |-> "busy", seconds |-> 0]
            /\ UNCHANGED <<isRunning, calibCalls, calibrations, calibStatus>>
        ELSE IF ~hasMicApi \/ ~hasAudioApi THEN
            /\ calibEvent' = [op |-> "calibrate", outcome |-> "unavailable", seconds |-> 0]
            /\ calibStatus' = IF ~hasMicApi THEN "no microphone API" ELSE "no Web Audio API"
            /\ UNCHANGED <<isRunning, calibCalls, calibrations>>
        ELSE
            /\ calibrations < MaxCalibrations
            /\ calibrations' = calibrations + 1
            /\ isRunning' = TRUE
            /\ calibStatus' = "calibrating"
            /\ calibEvent' = [op |-> "calibrate", outcome |-> "started", seconds |-> 0]
            /\ calibCalls' = calibCalls \cup
                  {[id |-> calibrations + 1, pc |-> "stream", trials |-> <<>>, i |-> 0,
                    stream |-> FALSE, context |-> FALSE, contextLatencyMs |-> 0,
                    outcome |-> "null", seconds |-> 0]}

\* The finally block up to its await, for a call that holds a context: the
\* stream's tracks are stopped and the call waits for audioContext.close().
FinallyWithContext(call, outcome, seconds, status) ==
    /\ liveStreams' = liveStreams - 1
    /\ calibCalls' = (calibCalls \ {call}) \cup
          {[call EXCEPT !.pc = "close", !.stream = FALSE,
                        !.outcome = outcome, !.seconds = seconds]}
    /\ calibStatus' = status
    /\ calibEvent' = NoCalibEvent
    /\ UNCHANGED <<isRunning, openContexts, calibrations>>

\* await getUserMedia(...) resolves; then new AudioContextCtor() throws, or
\* the making of the source and the analyser throws, or nothing does.  The
\* context's (baseLatency + outputLatency) * 1000 is unknown (0) or 20 ms.
StreamResolves ==
    /\ UNCHANGED notCalibVars
    /\ \E call \in calibCalls, thrown \in {"", "context", "source"},
          contextLatencyMs \in {0, 20} :
        /\ call.pc = "stream"
        /\ UNCHANGED calibrations
        /\ IF thrown = "context" THEN
              \* catch, then finally: the stream's tracks are stopped, there is
              \* no context
              /\ calibStatus' = "failed"
              /\ calibCalls' = calibCalls \ {call}
              /\ isRunning' = FALSE
              /\ calibEvent' = [op |-> "settled", outcome |-> "null", seconds |-> 0]
              /\ UNCHANGED <<liveStreams, openContexts>>
           ELSE IF thrown = "source" THEN
              \* catch, then finally up to its await: the stream's tracks are
              \* stopped and the context is to be closed
              /\ calibStatus' = "failed"
              /\ openContexts' = openContexts + 1
              /\ calibCalls' = (calibCalls \ {call}) \cup
                    {[call EXCEPT !.pc = "close", !.context = TRUE]}
              /\ calibEvent' = NoCalibEvent
              /\ UNCHANGED <<isRunning, liveStreams>>
           ELSE
              /\ liveStreams' = liveStreams + 1
              /\ openContexts' = openContexts + 1
              /\ calibEvent' = NoCalibEvent
              /\ UNCHANGED <<isRunning, calibStatus>>
              /\ calibCalls' = (calibCalls \ {call}) \cup
                    {[call EXCEPT !.pc = "trial", !.stream = TRUE, !.context = TRUE,
                                  !.contextLatencyMs = contextLatencyMs]}

\* await getUserMedia(...) rejects: catch, then finally with nothing held.
StreamRejects ==
    /\ UNCHANGED notCalibVars
    /\ \E call \in calibCalls :
        /\ call.pc = "stream"
        /\ calibStatus' = "failed"
        /\ calibCalls' = calibCalls \ {call}
        /\ isRunning' = FALSE
        /\ calibEvent' = [op |-> "settled", outcome |-> "null", seconds |-> 0]
        /\ UNCHANGED <<liveStreams, openContexts, calibrations>>

\* await runSingleLatencyTrial(...) resolves.
TrialResolves ==
    /\ UNCHANGED notCalibVars
    /\ \E call \in calibCalls, ms \in TrialInputs :
        /\ call.pc = "trial"
        /\ calibCalls' = (calibCalls \ {call}) \cup
              {[call EXCEPT !.pc = "sleep",
                            !.trials = IF IsFinite(ms) THEN Append(@, ms) ELSE @]}
        /\ calibEvent' = NoCalibEvent
        /\ UNCHANGED <<isRunning, liveStreams, openContexts, calibrations, calibStatus>>

\* await runSingleLatencyTrial(...) or await sleep(...) rejects: catch, then
\* finally.
TrialRejects ==
    /\ UNCHANGED notCalibVars
    /\ \E call \in calibCalls :
        /\ call.pc = "trial"
        /\ FinallyWithContext(call, "null", 0, "failed")

\* await sleep(trialGapMs) resolves: the next trial, or after the last one
\* the pick, the return and the finally block.
SleepResolves ==
    /\ UNCHANGED notCalibVars
    /\ \E call \in calibCalls :
        /\ call.pc = "sleep"
        /\ IF call.i + 1 < trialCount THEN
              /\ calibCalls' = (calibCalls \ {call}) \cup
                    {[call EXCEPT !.pc = "trial", !.i = @ + 1]}
              /\ calibEvent' = NoCalibEvent
              /\ UNCHANGED <<isRunning, liveStreams, openContexts, calibrations,
                             calibStatus>>
           ELSE
              \E picked \in {PickLatency(call.trials, call.contextLatencyMs)} :
                  FinallyWithContext(call, picked.outcome, picked.seconds, picked.status)

\* The calibrate handler of the global audio controls after its await of
\* speakerLatencyCalibrator.calibrate(): if (result)
\* setSpeakerLatencyBaseSeconds(result.seconds).
onCalibrated(outcome, seconds) ==
    IF outcome # "result" THEN UNCHANGED latencyVars
    ELSE
        /\ speakerLatencyBaseSeconds' = clampSpeakerLatencySeconds(seconds)
        /\ speakerLatencyCompensationSeconds' =
              computeSpeakerLatencyCompensationSeconds(
                  clampSpeakerLatencySeconds(seconds), speakerLatencyTrimSeconds)
        /\ storedBase' = persistSpeakerLatencyBaseSeconds(
                            clampSpeakerLatencySeconds(seconds), storedBase)
        /\ latencyCall' = [op |-> "base",
                           returned |-> clampSpeakerLatencySeconds(seconds)]
        /\ UNCHANGED <<speakerLatencyTrimSeconds, storedTrim, hasStorage>>

\* await audioContext.close() resolves: isRunning = false, and the call
\* settles with what the try or the catch block returned, which the
\* handler that awaits it takes up.
CloseResolves ==
    /\ UNCHANGED <<schedVars, syncVars, playerVars, beatVars, moreVars>>
    /\ \E call \in calibCalls :
        /\ call.pc = "close"
        /\ onCalibrated(call.outcome, call.seconds)
        /\ openContexts' = openContexts - 1
        /\ isRunning' = FALSE
        /\ calibCalls' = calibCalls \ {call}
        /\ calibEvent' = [op |-> "settled", outcome |-> call.outcome,
                          seconds |-> call.seconds]
        /\ UNCHANGED <<liveStreams, calibrations, calibStatus>>

\* await audioContext.close() rejects: the finally block ends there and the
\* call rejects.
CloseRejects ==
    /\ UNCHANGED notCalibVars
    /\ \E call \in calibCalls :
        /\ call.pc = "close"
        /\ calibCalls' = calibCalls \ {call}
        /\ calibEvent' = [op |-> "settled", outcome |-> "rejected", seconds |-> 0]
        /\ UNCHANGED <<isRunning, liveStreams, openContexts, calibrations, calibStatus>>

CalibInit ==
    /\ isRunning = FALSE
    /\ calibCalls = {}
    /\ liveStreams = 0
    /\ openContexts = 0
    /\ calibrations = 0
    /\ calibStatus = ""
    /\ calibEvent = NoCalibEvent

\* The pick taken by itself: calibrate from the end of the trial loop to its
\* return, for the trials and the context latency at hand.
NoPick == [outcome |-> "", status |-> "", seconds |-> 0]

pick ==
    /\ pickReturn = NoPick
    /\ Len(pickTrials) > 0
    /\ pickReturn' = PickLatency(pickTrials, pickContextLatencyMs)
    /\ UNCHANGED <<pickTrials, pickContextLatencyMs>>
    /\ UNCHANGED notPickVars

PickInit ==
    /\ pickTrials = <<>>
    /\ pickContextLatencyMs = 0
    /\ pickReturn = NoPick

(***************************************************************************)
(* The drum pulse synth.                                                   *)
(*                                                                         *)
(* start() runs ensureContext up to its await in one step and goes on in   *)
(* another when resume() has settled.  A wood block handed to the context  *)
(* stays in tones with the time it sounds at; the context's clock runs     *)
(* with the local clock.                                                   *)
(***************************************************************************)
NoSynthCall == [op |-> "none", current |-> 0, emitted |-> {}]

\* [toFixed(3) of lastDownBeatTime, toFixed(3) of tickLength,
\* Math.trunc(Number(numBarBeats) || 4)]: toFixed(3) of milliseconds keeps
\* whole microseconds.
getTransportSignature(ps) ==
    <<NumberOr0(ps.lastDownBeatTime), NumberOr0(ps.tickLength),
      Trunc(IF ~IsFinite(ps.numBarBeats) \/ ps.numBarBeats = 0
            THEN 2 * 4 ELSE ps.numBarBeats)>>

\* nextAbsoluteBeat = Math.max(0, getAbsoluteBeatNow(pulseState))
resetSchedulerCursor(ps, localNow) == Max2(0, getAbsoluteBeatNow(ps, localNow))

\* Math.max(0, Math.min(2000, Number(getLatencySeconds()) * 1000 || 0))
SynthLatencyUs(seconds) ==
    Max2(0, Min2(MAX_LATENCY_MS * 1000, NumberOr0(seconds)))

\* The while loop of scheduleTick from the cursor `next` on.
RECURSIVE EmitLoop(_, _, _, _, _)
EmitLoop(next, emitted, ps, localNow, signature) ==
    LET beatWindowMs == getBeatWindowMs(ps.tickLength)
        serverNow == localNow + NumberOr0(ps.clockOffset)
        latencyMs == SynthLatencyUs(synthLatency)
        horizonServerMs == serverNow + SCHEDULER_LOOKAHEAD_MS * 1000 + latencyMs
                              + SCHEDULER_GUARD_MS * 1000
        beatServerTime == ps.lastDownBeatTime + next * beatWindowMs
        whenSec == localNow + (beatServerTime - serverNow) - latencyMs
        tone == [beat |-> next,
                 downbeat |-> Wrap(next, BarBeats(ps.numBarBeats)) = 0,
                 signature |-> signature, when |-> whenSec, live |-> TRUE]
    IN IF next > getAbsoluteBeatNow(ps, localNow) + 64 \/ beatServerTime > horizonServerMs
       THEN [next |-> next, emitted |-> emitted]
       ELSE EmitLoop(next + 1,
                     IF whenSec >= localNow - 40 * 1000 THEN emitted \cup {tone}
                     ELSE emitted,
                     ps, localNow, signature)

\* scheduleTick once running and the context are known to be there: what it
\* leaves in the cursor, the signature and the tones.
TickSynth(cursor, signature) ==
    LET ps == synthPulse
        current == getAbsoluteBeatNow(ps, synthNow)
        seen == getTransportSignature(ps)
        reset == seen # signature \/ ~IsFinite(cursor)
        afterReset == IF reset THEN resetSchedulerCursor(ps, synthNow) ELSE cursor
        caughtUp == IF afterReset < current - 1 THEN current ELSE afterReset
    IN IF ~IsFinite(ps.lastDownBeatTime)
       THEN [next |-> cursor, signature |-> signature, emitted |-> {}, current |-> current]
       ELSE [next |-> EmitLoop(caughtUp, {}, ps, synthNow, seen).next,
             signature |-> IF reset THEN seen ELSE signature,
             emitted |-> EmitLoop(caughtUp, {}, ps, synthNow, seen).emitted,
             current |-> current]

\* The tones after a stop() or under another signature: none of them counts
\* as triggered in the present run of beats.
Retire(triggered) == {[tone EXCEPT !.live = FALSE] : tone \in triggered}

\* What a step of the synth leaves alone.
SynthStep == UNCHANGED <<notSynthVars, synthPulse, synthLatency>>

\* The interval timer fires and calls scheduleTick.
scheduleTick ==
    /\ SynthStep
    /\ synthTimers > 0
    /\ IF ~synthRunning \/ ~synthContext THEN
          /\ synthCall' = [NoSynthCall EXCEPT !.op = "tick"]
          /\ UNCHANGED <<nextAbsoluteBeat, transportSignature, tones>>
       ELSE
          \E r \in {TickSynth(nextAbsoluteBeat, transportSignature)} :
            /\ nextAbsoluteBeat' = r.next
            /\ transportSignature' = r.signature
            /\ tones' = (IF r.signature # transportSignature THEN Retire(tones)
                          ELSE tones) \cup r.emitted
            /\ synthCall' = [op |-> "tick", current |-> r.current, emitted |-> r.emitted]
    /\ UNCHANGED <<synthContext, schedulerTimerId, synthRunning, synthTimers,
                   synthStarts, synthNow, synthStopped>>

\* start() up to its await: ensureContext makes the context when there is
\* none and a constructor, and waits for resume().
startSynth ==
    /\ SynthStep
    /\ synthStarts < MaxStarts
    /\ \E ctor \in BOOLEAN :
        /\ synthContext' = (synthContext \/ ctor)
        /\ synthStarts' = IF ctor THEN synthStarts + 1 ELSE synthStarts
        /\ synthCall' = [NoSynthCall EXCEPT !.op = IF ctor THEN "start" ELSE "noCtor"]
    /\ synthStopped' = FALSE
    /\ UNCHANGED <<schedulerTimerId, synthRunning, nextAbsoluteBeat,
                   transportSignature, synthTimers, tones, synthNow>>

\* await ensureContext() resolves in a start(): with false after resume()
\* rejected; else running = true, the cursor is reset, and reading
\* audioContext.currentTime throws when destroy() has set the context to
\* null meanwhile; else the first wood block and startScheduler.
StartResolves ==
    /\ SynthStep
    /\ synthStarts > 0
    /\ synthStarts' = synthStarts - 1
    /\ \E ready \in BOOLEAN :
        IF ~ready THEN
            /\ synthCall' = [NoSynthCall EXCEPT !.op = "blocked"]
            /\ UNCHANGED <<synthRunning, nextAbsoluteBeat, transportSignature,
                           tones, schedulerTimerId, synthTimers>>
        ELSE IF ~synthContext THEN
            /\ synthRunning' = TRUE
            /\ nextAbsoluteBeat' = resetSchedulerCursor(synthPulse, synthNow)
            /\ synthCall' = [NoSynthCall EXCEPT !.op = "rejected"]
            /\ UNCHANGED <<transportSignature, tones, schedulerTimerId, synthTimers>>
        ELSE
            \E r \in {TickSynth(resetSchedulerCursor(synthPulse, synthNow),
                                transportSignature)} :
              /\ synthRunning' = TRUE
              /\ nextAbsoluteBeat' = r.next
              /\ transportSignature' = r.signature
              /\ tones' = (IF r.signature # transportSignature THEN Retire(tones)
                            ELSE tones) \cup r.emitted \cup
                    {[beat |-> NaN, downbeat |-> TRUE, signature |-> <<>>,
                      when |-> synthNow + 10 * 1000, live |-> TRUE]}
              /\ schedulerTimerId' = 1
              /\ synthTimers' = IF schedulerTimerId # 0 THEN synthTimers ELSE synthTimers + 1
              /\ synthCall' = [op |-> "started", current |-> r.current, emitted |-> r.emitted]
    /\ UNCHANGED <<synthContext, synthNow, synthStopped>>

\* stopScheduler
stopScheduler ==
    /\ schedulerTimerId' = 0
    /\ synthTimers' = IF schedulerTimerId # 0 THEN synthTimers - 1 ELSE synthTimers

\* stop()
stopSynth ==
    /\ SynthStep
    /\ synthRunning' = FALSE
    /\ stopScheduler
    /\ tones' = Retire(tones)
    /\ synthStopped' = TRUE
    /\ synthCall' = [NoSynthCall EXCEPT !.op = "stop"]
    /\ UNCHANGED <<synthContext, nextAbsoluteBeat, transportSignature, synthStarts,
                   synthNow>>

\* destroy(): stop(), and the context is closed, which silences what was
\* handed to it.
destroySynth ==
    /\ SynthStep
    /\ synthRunning' = FALSE
    /\ stopScheduler
    /\ synthContext' = FALSE
    /\ tones' = {}
    /\ synthStopped' = TRUE
    /\ synthCall' = [NoSynthCall EXCEPT !.op = "destroy"]
    /\ UNCHANGED <<nextAbsoluteBeat, transportSignature, synthStarts, synthNow>>

\* The local clock moves on.
SynthAdvanceTime ==
    /\ SynthStep
    /\ synthNow < MaxSynthSteps * SynthStepUs
    /\ synthNow' = synthNow + SynthStepUs
    /\ synthCall' = NoSynthCall
    /\ UNCHANGED <<synthContext, schedulerTimerId, synthRunning, nextAbsoluteBeat,
                   transportSignature, synthTimers, synthStarts, tones, synthStopped>>

\* A pulse message changes the transport or the clock offset estimate.
SynthPulseInputs ==
    [tickLength : {5000}, lastDownBeatTime : {0}, clockOffset : {0, 0 - 60000},
     numBarBeats : {2 * 4}]
    \cup [tickLength : {5000}, lastDownBeatTime : {30000}, clockOffset : {0},
          numBarBeats : {2 * 3}]

PulseChanges ==
    /\ UNCHANGED <<notSynthVars, synthLatency>>
    /\ synthPulse' \in SynthPulseInputs \ {synthPulse}
    /\ synthCall' = NoSynthCall
    /\ UNCHANGED <<synthContext, schedulerTimerId, synthRunning, nextAbsoluteBeat,
                   transportSignature, synthTimers, synthStarts, tones, synthNow,
                   synthStopped>>

SynthStarted(ps, latency) ==
    /\ synthContext = FALSE
    /\ schedulerTimerId = 0
    /\ synthRunning = FALSE
    /\ nextAbsoluteBeat = NaN
    /\ transportSignature = <<>>
    /\ synthTimers = 0
    /\ synthStarts = 0
    /\ tones = {}
    /\ synthNow = 0
    /\ synthPulse = ps
    /\ synthLatency = latency
    /\ synthCall = NoSynthCall
    /\ synthStopped = FALSE

SynthInit ==
    SynthStarted([tickLength |-> 5000, lastDownBeatTime |-> 0, clockOffset |-> 0,
                  numBarBeats |-> 2 * 4], 0)

(***************************************************************************)
(* The server field controller.                                            *)
(*                                                                         *)
(* The field holds a number on the server and a text in the input.  apply  *)
(* runs up to its await in one step; commitValue resolves or rejects in    *)
(* another.                                                                *)
(***************************************************************************)
ServerValues == {120, 130}
DraftTexts == {"120", "130", "x"}
NoFieldCall == [op |-> "none", error |-> "none"]

\* formatServerValue: String(value)
formatServerValue(value) == IF value = 120 THEN "120" ELSE "130"

\* parseDraftValue, for a field that takes the numbers of ServerValues.
parseDraftValue(rawValue) ==
    IF rawValue = "120" THEN [ok |-> TRUE, value |-> 120]
    ELSE IF rawValue = "130" THEN [ok |-> TRUE, value |-> 130]
    ELSE [ok |-> FALSE, value |-> 0]

\* The input's value after sync(), which refreshes it when the input is
\* neither focused nor holding a draft; the variant looks at the focus only.
SyncedValueUnlessFocused(value, draft, focused, server) ==
    IF ~focused THEN formatServerValue(server) ELSE value

SyncedValue(value, draft, focused, server) ==
    IF ~focused /\ ~draft THEN formatServerValue(server) ELSE value

\* hasDraftValue after the await of commitValue: cleared in the try block,
\* kept by the catch block; the variant clears it either way.
DraftAfterCommitCleared(resolved, draft) == FALSE

DraftAfterCommit(resolved, draft) == IF resolved THEN FALSE ELSE draft

\* The test at the head of apply(): canEdit() holds and no commit is in
\* flight; the variant leaves the second part out.
ApplyProceedsWhileBusy(edit, busy) == edit

ApplyProceeds(edit, busy) == edit /\ ~busy

\* What a step of the controller leaves alone.
FieldStep == UNCHANGED notFieldVars

\* A state update arrives and the view calls sync().
sync ==
    /\ FieldStep
    /\ \E value \in ServerValues, edit \in BOOLEAN :
        /\ serverValue' = value
        /\ editable' = edit
        /\ inputValue' = SyncedValue(inputValue, hasDraftValue, isEditing, value)
        /\ inputDisabled' = (~edit \/ applying)
        /\ applyDisabled' = (~edit \/ applying)
    /\ fieldCall' = [NoFieldCall EXCEPT !.op = "sync"]
    /\ UNCHANGED <<applying, hasDraftValue, isEditing, commits, committed, userDraft,
                   listening>>

\* The user puts the focus into the input, or takes it away.
FocusMoves ==
    /\ FieldStep
    /\ isEditing \/ ~inputDisabled
    /\ isEditing' = ~isEditing
    /\ fieldCall' = NoFieldCall
    /\ UNCHANGED <<applying, hasDraftValue, inputValue, inputDisabled, applyDisabled,
                   serverValue, editable, commits, committed, userDraft, listening>>

\* The user types: the browser puts the text into the input, and the input
\* event runs onInput while the listener is on the element.
onInput ==
    /\ FieldStep
    /\ isEditing /\ ~inputDisabled
    /\ \E text \in DraftTexts : inputValue' = text
    /\ hasDraftValue' = (hasDraftValue \/ listening)
    /\ userDraft' = TRUE
    /\ fieldCall' = [NoFieldCall EXCEPT !.op = "input"]
    /\ UNCHANGED <<applying, inputDisabled, applyDisabled, isEditing, serverValue,
                   editable, commits, committed, listening>>

\* apply(), after a click on the button, which takes the focus, or after
\* Enter in the input; canEdit() may have changed since the latest sync().
\* Without the listeners the event runs no code of the controller.
ApplyEvent(click, edit) ==
        /\ isEditing' = (isEditing /\ ~click)
        /\ editable' = edit
        /\ IF ~listening \/ ~ApplyProceeds(edit, applying) THEN
              /\ fieldCall' = [NoFieldCall EXCEPT !.op = "apply"]
              /\ UNCHANGED <<applying, inputValue, inputDisabled, applyDisabled, commits>>
           ELSE IF ~parseDraftValue(inputValue).ok THEN
              /\ fieldCall' = [op |-> "apply", error |-> "validation"]
              /\ UNCHANGED <<applying, inputValue, inputDisabled, applyDisabled, commits>>
           ELSE
              /\ Len(commits) + Len(committed) < MaxCommits
              /\ applying' = TRUE
              /\ inputValue' = SyncedValue(inputValue, hasDraftValue, isEditing', serverValue)
              /\ inputDisabled' = TRUE
              /\ applyDisabled' = TRUE
              /\ commits' = Append(commits, parseDraftValue(inputValue).value)
              /\ fieldCall' = [op |-> "apply", error |-> "none"]
        /\ UNCHANGED <<hasDraftValue, serverValue, committed, userDraft, listening>>

\* The browser delivers the event: an enabled button takes the click, an
\* enabled input with the focus takes the key.
apply ==
    /\ FieldStep
    /\ \E click \in BOOLEAN, edit \in BOOLEAN :
        /\ IF click THEN ~applyDisabled ELSE isEditing /\ ~inputDisabled
        /\ ApplyEvent(click, edit)

\* The same two handlers called with an event dispatched by a script,
\* whatever the state of the elements.
applyDispatched ==
    /\ FieldStep
    /\ \E click \in BOOLEAN, edit \in BOOLEAN : ApplyEvent(click, edit)

\* await commitValue(parsed.value) settles: try or catch, then finally.
CommitSettles ==
    /\ FieldStep
    /\ commits # <<>>
    /\ \E resolved \in BOOLEAN :
        /\ hasDraftValue' = DraftAfterCommit(resolved, hasDraftValue)
        /\ inputValue' = SyncedValue(inputValue, DraftAfterCommit(resolved, hasDraftValue),
                                     isEditing, serverValue)
        /\ committed' = IF resolved THEN Append(committed, Head(commits)) ELSE committed
        /\ userDraft' = (userDraft /\ ~resolved)
        /\ fieldCall' = IF resolved THEN [op |-> "resolved", error |-> "none"]
                        ELSE [op |-> "rejected", error |-> "commit"]
    /\ commits' = Tail(commits)
    /\ applying' = FALSE
    /\ inputDisabled' = ~editable
    /\ applyDisabled' = ~editable
    /\ UNCHANGED <<isEditing, serverValue, editable, listening>>

\* destroy(): the three listeners are taken off the elements.
destroyField ==
    /\ FieldStep
    /\ listening' = FALSE
    /\ fieldCall' = [NoFieldCall EXCEPT !.op = "destroy"]
    /\ UNCHANGED <<applying, hasDraftValue, inputValue, inputDisabled, applyDisabled,
                   isEditing, serverValue, editable, commits, committed, userDraft>>

\* mountServerFieldController: the listeners are added and sync() runs.
FieldMounted(server, edit) ==
    /\ applying = FALSE
    /\ hasDraftValue = FALSE
    /\ inputValue = formatServerValue(server)
    /\ inputDisabled = ~edit
    /\ applyDisabled = ~edit
    /\ isEditing = FALSE
    /\ serverValue = server
    /\ editable = edit
    /\ commits = <<>>
    /\ committed = <<>>
    /\ fieldCall = NoFieldCall
    /\ userDraft = FALSE
    /\ listening = TRUE

FieldInit == FieldMounted(120, TRUE)

(***************************************************************************)
(* Two clients of one authority clock.                                     *)
(*                                                                         *)
(* Each client reads its own performance.now(); its clockOffset is the     *)
(* authority's time less its local time, as a settled clock sync leaves    *)
(* it.  Both hold the timing of the same pulse messages.                   *)
(***************************************************************************)
Twins == {1, 2}

\* What performance.now() reads on a client when the authority starts.
TwinLocalStarts == {0, 123456, 5 * 1000 * 1000}

TimingInputs ==
    [tickLength : {NaN, 20, 20833},
     lastDownBeatTime : {NaN, 0, ServerBaseUs + 5},
     numBarBeats : {NaN, 5, 2 * 3}]

\* getAbsoluteBeatNow and getBeatInBar on a client.
TwinReading(ps, localNow) ==
    [absoluteBeat |-> getAbsoluteBeatNow(ps, localNow),
     beatInBar |-> getBeatInBar(ps, localNow)]

\* Time passes on the authority and on both clients alike, and each client
\* computes its beat.
TwinsRead ==
    /\ \E gap \in {getBeatWindowMs(twinPulse[1].tickLength) \div 3,
                    getBeatWindowMs(twinPulse[1].tickLength)} :
          /\ twinAuthority' = twinAuthority + gap
          /\ twinAuthority' <= ServerBaseUs
                  + MaxBeatSpan * getBeatWindowMs(twinPulse[1].tickLength)
          /\ twinLocal' = [c \in Twins |-> twinLocal[c] + gap]
    /\ twinBeats' = [c \in Twins |-> TwinReading(twinPulse[c], twinLocal'[c])]
    /\ UNCHANGED twinPulse
    /\ UNCHANGED notTwinVars

\* The same pulse message reaches both clients, patchPulseState(timing),
\* and each computes its beat from the new state.
TwinsPulse ==
    /\ \E timing \in TimingInputs :
          twinPulse' = [c \in Twins |->
              [twinPulse[c] EXCEPT !.tickLength = timing.tickLength,
                                   !.lastDownBeatTime = timing.lastDownBeatTime,
                                   !.numBarBeats = timing.numBarBeats]]
    /\ twinBeats' = [c \in Twins |-> TwinReading(twinPulse'[c], twinLocal[c])]
    /\ UNCHANGED <<twinAuthority, twinLocal>>
    /\ UNCHANGED notTwinVars

\* Two clients whose clocks read first and second when the authority's
\* reads ServerBaseUs, holding the same timing.
TwinsStarted(first, second, timing) ==
    /\ twinAuthority = ServerBaseUs
    /\ twinLocal = <<first, second>>
    /\ twinPulse = [c \in Twins |->
          [tickLength |-> timing.tickLength,
           lastDownBeatTime |-> timing.lastDownBeatTime,
           clockOffset |-> twinAuthority - twinLocal[c],
           numBarBeats |-> timing.numBarBeats]]
    /\ twinBeats = [c \in Twins |-> TwinReading(twinPulse[c], twinLocal[c])]

TwinInit ==
    TwinsStarted(0, 0, [tickLength |-> 20833, lastDownBeatTime |-> 0,
                        numBarBeats |-> 2 * 4])

(***************************************************************************)
(* Pulse messages: normalizeTimingPayload and handlePulse of the transport *)
(* client, onTimingChange and patchPulseState of the app state.            *)
(*                                                                         *)
(* A field of a message is a number in halves, or NaN for a field that is  *)
(* missing, not a number or not finite: Number.isFinite is false for all   *)
(* of these.                                                               *)
(***************************************************************************)
PulseMessages ==
    [lastDownBeatTime : {NaN, 0, 0 - 3, 5},
     tickLength : {NaN, 0, 0 - 2, 1, 2 * 20000},
     numBarBeats : {NaN, 0, 0 - 8, 1, 7, 2 * 3}]

\* The variant copies the three fields as they come.
normalizeTimingUnchecked(message) == message

\* normalizeTimingPayload: the object with the fields that passed.
normalizeTimingPayload(message) ==
    [key \in {field \in {"lastDownBeatTime", "tickLength", "numBarBeats"} :
                 /\ IsFinite(message[field])
                 /\ field = "tickLength" => message[field] > 0} |->
        IF key = "numBarBeats"
        THEN 2 * Max2(1, Trunc(message[key]))
        ELSE message[key]]

\* {...state.pulse, ...changes}
patchPulseState(changes) ==
    [key \in DOMAIN statePulse |->
        IF key \in DOMAIN changes THEN changes[key] ELSE statePulse[key]]

\* handlePulse, with onTimingChange and notify() for one listener.
handlePulse ==
    /\ \E message \in PulseMessages :
          /\ pulseMessage' = message
          /\ \E timing \in {normalizeTimingPayload(message)} :
                IF DOMAIN timing = {}
                THEN notified' = 0 /\ UNCHANGED statePulse
                ELSE notified' = 1 /\ statePulse' = patchPulseState(timing)
    /\ UNCHANGED notPulseVars

\* state.pulse as the app state module sets it up.
PulseInit ==
    /\ statePulse = [lastDownBeatTime |-> 0, tickLength |-> 2 * DEFAULT_TICK_LENGTH_US,
                     numBarBeats |-> 2 * 4]
    /\ pulseMessage = [lastDownBeatTime |-> NaN, tickLength |-> NaN,
                       numBarBeats |-> NaN]
    /\ notified = 0

LastInit == TwinInit /\ PulseInit

MoreInit == PickInit /\ SynthInit /\ FieldInit /\ LastInit

\* The state of the other components after construction.
ExtraInit == PlayerInit /\ BeatInit /\ LatencyInit /\ CalibInit /\ MoreInit

Init == SchedInit /\ SyncInit /\ ExtraInit

\* enqueue, tick, start, stop and the passing of time: no clear, no destroy.
NextNoClear == Enqueue \/ Tick \/ Start \/ Stop \/ AdvanceTime

SpecNoClear == Init /\ [][NextNoClear]_vars

Next == Enqueue \/ Tick \/ Start \/ Stop \/ Clear \/ Destroy \/ AdvanceTime

Spec == Init /\ [][Next]_vars

\* The transport client: connecting, the sync burst, replies, timeouts.
NextSync ==
    \/ EnsureConnected \/ Disconnect \/ OpenSocket \/ CloseSocket
    \/ BurstTimerFires \/ TimeoutFires \/ DeliverServerTime \/ SyncAdvanceTime

SpecSync == Init /\ [][NextSync]_vars

\* The transport client from a history one short of full, the socket staying
\* open.
InitFull == SchedInit /\ SyncInitFull /\ ExtraInit

NextSyncFull ==
    BurstTimerFires \/ TimeoutFires \/ DeliverServerTime \/ SyncAdvanceTime

SpecSyncFull == InitFull /\ [][NextSyncFull]_vars

\* The transport client from a history of one or two samples, the socket
\* staying open.
InitPair == SchedInit /\ SyncInitPair /\ ExtraInit

SpecSyncPair == InitPair /\ [][NextSyncFull]_vars

\* The multi-track buffer player: setTrackSource calls and the completions
\* of what they wait for.
NextPlayer ==
    \/ SetTrackSource \/ FetchResolves \/ BodyResolves \/ ContextResolves
    \/ DecodeResolves \/ LoadRejects

SpecPlayer == Init /\ [][NextPlayer]_vars

\* The player with its playback side: loads of one URL and clears, the
\* scheduled starts and stops, unlock, destroy and the nodes' ended events.
LoadOrClear ==
    /\ \E trackIndex \in Tracks, url \in {"", "a"} :
        /\ url # "" => Cardinality(loads) < MaxInFlight
        /\ setTrackSource(trackIndex, url)
    /\ UNCHANGED notPlayerVars

NextPlayback ==
    \/ LoadOrClear \/ FetchResolves \/ BodyResolves \/ ContextResolves
    \/ DecodeResolves \/ LoadRejects
    \/ schedulePlay \/ scheduleJump \/ schedulePause \/ getAudioCurrentTime
    \/ unlock \/ destroyPlayer \/ SourceEnded

SpecPlayback == Init /\ [][NextPlayback]_vars

\* The beat display over every pulse state of PulseInputs.
InitBeat ==
    /\ SchedInit /\ SyncInit /\ PlayerInit /\ LatencyInit /\ CalibInit /\ MoreInit
    /\ \E ps \in PulseInputs : BeatMounted(ps)

NextBeat == render \/ unmountBeatDisplay

SpecBeat == InitBeat /\ [][NextBeat]_vars

\* The speaker latency value with and without localStorage, over the stored
\* texts none, "-1", "0.1", "1.9", "3" for the base and none, "-0.5", "-0.1",
\* "0.3", "0.9" for the trim.
InitLatency ==
    /\ SchedInit /\ SyncInit /\ PlayerInit /\ BeatInit /\ CalibInit /\ MoreInit
    /\ \E base \in {NaN, 0 - 1000000, 100000, 1900000, 3000000},
          trim \in {NaN, 0 - 500000, 0 - 100000, 300000, 900000},
          storage \in BOOLEAN :
          LatencyStarted(base, trim, storage)

NextLatency ==
    \/ setSpeakerLatencyBaseSeconds \/ setSpeakerLatencyTrimSeconds
    \/ setSpeakerLatencyCompensationSeconds \/ loadState

SpecLatency == InitLatency /\ [][NextLatency]_vars

\* The speaker latency calibrator: calibrate calls and the completions of
\* what they wait for.
NextCalib ==
    \/ calibrate \/ StreamResolves \/ StreamRejects \/ TrialResolves
    \/ TrialRejects \/ SleepResolves \/ CloseResolves \/ CloseRejects

SpecCalib == Init /\ [][NextCalib]_vars

\* The pick of calibrate for every list of up to MaxPickLen finite trial
\* latencies and for a context that reports no latency or 20 ms.
MaxPickLen == 5

PickTrialInputs == {5, 38, 40, 41, 42, 300, 400, 950}

InitPick ==
    /\ SchedInit /\ SyncInit /\ PlayerInit /\ BeatInit /\ LatencyInit /\ CalibInit
    /\ SynthInit /\ FieldInit /\ LastInit
    /\ pickTrials \in UNION {[1..n -> PickTrialInputs] : n \in 1..MaxPickLen}
    /\ pickContextLatencyMs \in {0, 20}
    /\ pickReturn = NoPick

NextPick == pick

SpecPick == InitPick /\ [][NextPick]_vars

\* The drum pulse synth: its calls, its timer, its clock and the pulse
\* messages, for a latency of 60 ms.
InitSynth ==
    /\ SchedInit /\ SyncInit /\ PlayerInit /\ BeatInit /\ LatencyInit /\ CalibInit
    /\ PickInit /\ FieldInit /\ LastInit
    /\ \E latency \in {60 * 1000} :
          SynthStarted([tickLength |-> 5000, lastDownBeatTime |-> 0,
                        clockOffset |-> 0, numBarBeats |-> 2 * 4], latency)

NextSynth ==
    \/ startSynth \/ StartResolves \/ scheduleTick \/ stopSynth \/ destroySynth
    \/ SynthAdvanceTime \/ PulseChanges

SpecSynth == InitSynth /\ [][NextSynth]_vars

\* The server field controller: state updates, the user at the input and at
\* the button, and the commits.
NextField == sync \/ FocusMoves \/ onInput \/ apply \/ CommitSettles

SpecField == Init /\ [][NextField]_vars

\* The controller with events dispatched at any time and with destroy().
NextFieldEvents ==
    sync \/ FocusMoves \/ onInput \/ applyDispatched \/ CommitSettles \/ destroyField

SpecFieldEvents == Init /\ [][NextFieldEvents]_vars

\* Two clients with every pair of local clocks of TwinLocalStarts, reading
\* their beats as time passes and as pulse messages arrive.
InitTwin ==
    /\ SchedInit /\ SyncInit /\ PlayerInit /\ BeatInit /\ LatencyInit /\ CalibInit
    /\ PickInit /\ SynthInit /\ FieldInit /\ PulseInit
    /\ \E first \in TwinLocalStarts, second \in TwinLocalStarts,
          timing \in TimingInputs : TwinsStarted(first, second, timing)

NextTwin == TwinsRead \/ TwinsPulse

SpecTwin == InitTwin /\ [][NextTwin]_vars

\* The scheduler while the pulse state, the latency and the audio clock it
\* reads change: no clear, no destroy.
NextTiming == Enqueue \/ Tick \/ Start \/ Stop \/ AdvanceTime \/ TimingChanges

SpecTiming == Init /\ [][NextTiming]_vars

\* The pulse messages of PulseMessages, in any order.
NextPulse == handlePulse

SpecPulse == Init /\ [][NextPulse]_vars

\* The perform view keeps calling setTrackSource for the same URL on each
\* slot, with at most MaxInFlight + 1 calls waiting, and every fetch and
\* every decoding completes with success, each of them in the end.
ReloadAgain ==
    /\ Cardinality(loads) <= MaxInFlight
    /\ \E trackIndex \in Tracks : Reload(trackIndex, "a")
    /\ UNCHANGED notPlayerVars

LoadCompletes == \E load \in ReloadRecords : LoadAdvances(load)

NextReload == ReloadAgain \/ LoadCompletes

SpecReload ==
    /\ Init
    /\ [][NextReload]_vars
    /\ \A load \in ReloadRecords : WF_vars(LoadAdvances(load))

\* The scheduler kept running: enqueues, timer ticks and the passing of time.
\* The timer keeps firing, the sink accepts an event it keeps being offered,
\* and the clock moves on.
TickAccepting == (\E budget \in SinkBudgets \ {0} : tick(budget)) /\ UNCHANGED <<syncVars, extraVars>>

NextLive == Enqueue \/ Tick \/ Start \/ AdvanceTime

SpecLive ==
    /\ Init
    /\ [][NextLive]_vars
    /\ WF_vars(Start)
    /\ WF_vars(AdvanceTime)
    /\ WF_vars(TickAccepting)

(***************************************************************************)
(* Properties of the event scheduler.                                      *)
(***************************************************************************)
HandedIds == {handed[i].eventId : i \in DOMAIN handed}

IsSortedByBeatAndId(q) ==
    \A i \in 1..(Len(q) - 1) : compareEvents(q[i], q[i + 1]) <= 0

\* C1: no eventId is accepted by the sink more than once (enqueue, tick,
\* stop and start in any order, no clear or destroy).
C1_ExactlyOnce ==
    \A i, j \in DOMAIN handed :
        i # j => handed[i].eventId # handed[j].eventId

C3_HeadOfLineDeferral ==
    [][sinkLog' # <<>> =>
        LET calls == sinkLog'
            last == calls[Len(calls)]
        IN  /\ ~last.handled =>
                   /\ nextEventCursor' < Len(events')
                   /\ events'[nextEventCursor' + 1] = last.event
            /\ \A i \in DOMAIN events :
                   events[i].eventId \in deferredEventIds =>
                       \A k \in DOMAIN calls :
                           compareEvents(calls[k].event, events[i]) > 0 =>
                               \E j \in 1..(k - 1) :
                                   calls[j].event = events[i] /\ calls[j].handled
            /\ \A k \in DOMAIN calls : calls[k].event.eventId \notin HandedIds
    ]_vars

\* C4: with the scheduler running, the timer firing, time advancing and the
\* sink accepting what it keeps being offered, every event enqueue returned
\* true for is eventually accepted by the sink.
C4_EveryQueuedEventHanded ==
    \A id \in 1..MaxId : (id \in seenEventIds) ~> (id \in HandedIds)

\* C5: enqueue of an event with a non-finite eventId or absoluteBeat, or with
\* an eventId already seen, returns false and leaves the queue, the cursor
\* and the seen-id set unchanged; the queue never holds an eventId twice.
C5_EnqueueRejects ==
    /\ [][\A event \in EventInputs :
            (enqueue(event) /\ ~EnqueueAccepts(event)) =>
                /\ enqueueReturn' = "false"
                /\ UNCHANGED <<events, nextEventCursor, seenEventIds>>]_vars
    /\ [](\A i, j \in DOMAIN events :
            i # j => events[i].eventId # events[j].eventId)

\* An enqueue has just been rejected while the queue held the event of the one
\* id seen.
C5_Witness ==
    /\ enqueueReturn = "false"
    /\ Len(events) = 1
    /\ seenEventIds = {events[1].eventId}

Pending(q, cursor) == {q[i] : i \in (cursor + 1)..Len(q)}

C7_NoTimerAfterStop ==
    /\ [](liveTimers <= 1 /\ (~running => liveTimers = 0))
    /\ [][(~running /\ ~Start) => (sinkLog' = <<>> /\ Len(handed') <= Len(handed))]_vars

\* A stopped scheduler holds an event that is due.
C7_Witness ==
    /\ ~running
    /\ handed # <<>>
    /\ nextEventCursor < Len(events)
    /\ BeatServerTime(events[nextEventCursor + 1]) <= HorizonServerMs


(***************************************************************************)
(* Clock sync.                                                             *)
(***************************************************************************)

\* C8: a server_time response whose requestId has no pending request (it was
\* never sent, its timeout fired, the connection closed, or a response for
\* it was already handled) leaves the sample history and the clock offset
\* estimate as they were and notifies no observer; and only a response to a
\* pending request that has not yet given a sample gives one, so that no
\* request contributes more than one sample.
C8_UnmatchedIgnored ==
    /\ [][(delivered' # NoMessage /\ ~HasPending(delivered'))
            => /\ syncSamples' = syncSamples
               /\ clockOffset' = clockOffset
               /\ observerCalls' = <<>>]_vars
    /\ [][(syncSamples' # syncSamples \/ observerCalls' # <<>>)
            => /\ delivered' # NoMessage
               /\ HasPending(delivered')
               /\ delivered' \notin sampledIds]_vars

\* A second response for a request that already gave a sample was handled
\* and changed nothing.
C8_Witness ==
    /\ delivered # NoMessage
    /\ delivered \in sampledIds
    /\ observerCalls = <<>>
    /\ syncSamples # <<>>

\* The sample the latest operation reported to onSyncSample.
ReportedSample(calls) ==
    [roundTripTime |-> calls[1].roundTripTime, clockOffset |-> calls[1].clockOffset]

\* C9: the history never holds more than MAX_SYNC_SAMPLES samples; a valid
\* sample that arrives when the history is full evicts exactly the oldest
\* one and goes to the end, the others keeping their order; when it is not
\* full the sample is appended; and nothing else changes the history.
C9_BoundedFifo ==
    /\ [](Len(syncSamples) <= MAX_SYNC_SAMPLES)
    /\ [][observerCalls' # <<>> =>
            IF Len(syncSamples) = MAX_SYNC_SAMPLES
            THEN syncSamples' = Tail(syncSamples) \o <<ReportedSample(observerCalls')>>
            ELSE syncSamples' = Append(syncSamples, ReportedSample(observerCalls'))]_vars
    /\ [][observerCalls' = <<>> => syncSamples' = syncSamples]_vars

\* A sample has just arrived at a full history, and the two oldest samples
\* of the initial history are gone.
C9_Witness ==
    /\ Len(syncSamples) = MAX_SYNC_SAMPLES
    /\ observerCalls # <<>>
    /\ syncSamples[1] = FullSample(3)
    /\ syncSamples[MAX_SYNC_SAMPLES] = ReportedSample(observerCalls)

\* The reference estimate, stated without the sort: the samples used are those
\* with fewer than k samples before them, where a sample is before another
\* when its roundTripTime is lower, or equal and it came earlier, and k is the
\* least count of at least one that covers half the history.
RefCount(n) == CHOOSE k \in 1..Max2(1, n) : 2 * k >= n /\ (k = 1 \/ 2 * (k - 1) < n)
RefBefore(samples, i, j) ==
    \/ samples[i].roundTripTime < samples[j].roundTripTime
    \/ samples[i].roundTripTime = samples[j].roundTripTime /\ i < j
RefUsed(samples) ==
    {i \in DOMAIN samples :
        Cardinality({j \in DOMAIN samples : RefBefore(samples, j, i)})
            < RefCount(Len(samples))}

\* max(0.5, roundTripTime) of a sample, in microseconds.
RefDivisor(sample) == IF sample.roundTripTime < 500 THEN 500 ELSE sample.roundTripTime

RECURSIVE RefProduct(_, _)
RefProduct(samples, indices) ==
    IF indices = {} THEN 1
    ELSE LET i == CHOOSE x \in indices : TRUE
         IN RefDivisor(samples[i]) * RefProduct(samples, indices \ {i})

\* The sum over the used samples of Numerator(sample) / RefDivisor(sample),
\* times the product of all the used samples' divisors.
RECURSIVE RefSum(_, _, _, _)
RefSum(samples, indices, all, withOffset) ==
    IF indices = {} THEN 0
    ELSE LET i == CHOOSE x \in indices : TRUE
         IN (IF withOffset THEN samples[i].clockOffset ELSE 1)
               * RefProduct(samples, all \ {i})
            + RefSum(samples, indices \ {i}, all, withOffset)

\* estimate = (sum of offset/divisor) / (sum of 1/divisor), cross-multiplied.
IsReferenceEstimate(estimate, samples) ==
    LET used == RefUsed(samples)
    IN estimate[1] * RefSum(samples, used, used, FALSE)
          = estimate[2] * RefSum(samples, used, used, TRUE)

\* The history with the offset of every sample outside the used half set to 0.
ZeroUnused(samples) ==
    [i \in DOMAIN samples |->
        IF i \in RefUsed(samples) THEN samples[i]
        ELSE [samples[i] EXCEPT !.clockOffset = 0]]

\* C10: once a sample has been accepted, the clock offset the client holds,
\* and the one it has just passed to onClockOffsetChange, is the reference
\* estimate of the current history: the average of the offsets of the
\* max(1, ceil(n/2)) samples of lowest roundTripTime, weighted by
\* 1/max(0.5, roundTripTime); the offsets of the other samples do not enter it.
C10_EstimateIsReference ==
    /\ syncSamples # <<>> =>
          /\ IsFiniteEstimate(clockOffset)
          /\ IsReferenceEstimate(clockOffset, syncSamples)
          /\ chooseClockOffsetEstimate(ZeroUnused(syncSamples)) = clockOffset
    /\ observerCalls # <<>> => observerCalls[1].onClockOffsetChange = clockOffset

\* A sample has just been accepted into a history of three; the two used
\* samples differ in weight and in offset, the estimate is neither's offset,
\* and the unused sample came before a used one.
C10_Witness ==
    /\ Len(syncSamples) = 3
    /\ observerCalls # <<>>
    /\ \E i, j \in RefUsed(syncSamples) :
          /\ syncSamples[i].roundTripTime # syncSamples[j].roundTripTime
          /\ syncSamples[i].clockOffset # syncSamples[j].clockOffset
          /\ clockOffset # <<syncSamples[i].clockOffset, 1>>
          /\ clockOffset # <<syncSamples[j].clockOffset, 1>>
    /\ \E u \in DOMAIN syncSamples \ RefUsed(syncSamples) :
          \E i \in RefUsed(syncSamples) : u < i

\* The distance of an estimate from an offset, times the estimate's
\* denominator.
Distance(estimate, offset) == Abs(estimate[1] - offset * estimate[2])

\* C11: whenever the history holds two samples of different roundTripTime and
\* different offsets, the estimate of that history, which is the clock offset
\* the client holds, is strictly closer to the offset of the sample of lower
\* roundTripTime than to the offset of the other.
C11_CloserToLowerRtt ==
    (/\ Len(syncSamples) = 2
     /\ syncSamples[1].roundTripTime # syncSamples[2].roundTripTime
     /\ syncSamples[1].clockOffset # syncSamples[2].clockOffset)
    => \E low, high \in 1..2 :
          /\ syncSamples[low].roundTripTime < syncSamples[high].roundTripTime
          /\ clockOffset = chooseClockOffsetEstimate(syncSamples)
          /\ Distance(clockOffset, syncSamples[low].clockOffset)
                < Distance(clockOffset, syncSamples[high].clockOffset)

\* A second sample has just been accepted after one of 50 ms round trip and
\* 100 ms offset; its round trip is shorter and its offset is different.
C11_Witness ==
    /\ Len(syncSamples) = 2
    /\ delivered \in sampledIds
    /\ observerCalls # <<>>
    /\ syncSamples[1] = [roundTripTime |-> 50 * 1000, clockOffset |-> 100 * 1000]
    /\ syncSamples[2].roundTripTime < syncSamples[1].roundTripTime
    /\ syncSamples[2].clockOffset # syncSamples[1].clockOffset

\* C12: a server_time response that answers a pending request and in which
\* one of the four stamps the handler works with (client send, server
\* receive, server send, client receive) is not finite is discarded: the
\* history and the clock offset stay as they were and no observer is
\* notified; and the clock offset the client holds is finite in every state.
C12_NonFiniteDiscarded ==
    /\ [][deliveredInvalid' =>
            /\ syncSamples' = syncSamples
            /\ clockOffset' = clockOffset
            /\ sampledIds' = sampledIds
            /\ observerCalls' = <<>>]_vars
    /\ [](IsFiniteEstimate(clockOffset) /\ clockOffset[2] > 0)

\* A response with a stamp that is not finite has just been discarded by a
\* client that holds samples and an offset other than the initial 0.
C12_Witness ==
    /\ deliveredInvalid
    /\ delivered \notin DOMAIN pendingPings
    /\ observerCalls = <<>>
    /\ syncSamples # <<>>
    /\ clockOffset # <<0, 1>>

\* C13: a setTrackSource call that finishes after a later call on its slot
\* asked for another URL, for the same URL before the buffer was ready, or
\* for no URL, leaves the slot's buffer as it was, whether it finishes by
\* fetching and decoding or by failing.
C13_StaleLoadKeepsBuffer ==
    [][(settled' # NoLoad /\ settled'.superseded)
         => tracks'[settled'.slot].buffer = tracks[settled'.slot].buffer]_vars

\* The timing state the pulse invariant asks for: a tick length above 0 and a
\* finite downbeat time.
ValidTiming(ps) ==
    IsFinite(ps.tickLength) /\ ps.tickLength > 0 /\ IsFinite(ps.lastDownBeatTime)

\* C14: with a valid, fixed timing state, the absolute beat of a render is
\* never below that of the render before it, and it is exactly one more when
\* the clock readings of the two renders are one beat window (24 tick
\* lengths) apart.
C14_BeatAdvances ==
    [][(ValidTiming(displayPulse) /\ beatReadAt' # beatReadAt) =>
          /\ lastAbsoluteBeat' >= lastAbsoluteBeat
          /\ (beatReadAt' - beatReadAt = TICKS_PER_BEAT * getTickLengthMs(displayPulse.tickLength)
                => lastAbsoluteBeat' = lastAbsoluteBeat + 1)]_vars

\* With the downbeat one second ahead of the clock, three renders one beat
\* window apart have taken the beat from -3 to 0.
C14_Witness ==
    /\ ValidTiming(displayPulse)
    /\ displayPulse.lastDownBeatTime = 1000 * 1000
    /\ displayPulse.clockOffset = 0
    /\ beatReadAt = 3 * getBeatWindowMs(displayPulse.tickLength)
    /\ lastAbsoluteBeat = 0

\* The absolute beat getBeatInBar worked with in the latest render.
InBarBeat == getAbsoluteBeatNow(displayPulse, inBarReadAt)

C16_InvalidTimingGivesZero ==
    ~ValidTiming(displayPulse) => lastAbsoluteBeat = 0

\* clamp(x, 0, 2 s), and a value that is not finite counted as 0.
ClampTo2s(x) == IF x < 0 THEN 0 ELSE IF x > 2 * 1000 * 1000 THEN 2 * 1000 * 1000 ELSE x
FiniteOr0(x) == IF x = NaN THEN 0 ELSE x

\* C17 as stated: the compensation computed from a stored base and trim is
\* clamp(base + trim, 0, 2), whatever the stored pair, the base outside
\* [0, 2] and the trim outside [-0.3, 0.3] included, a value that is not
\* finite counting as 0.
C17_CompensationIsClampedSum ==
    (latencyCall.op = "load" /\ hasStorage) =>
        /\ speakerLatencyCompensationSeconds
              = computeSpeakerLatencyCompensationSeconds(storedBase, storedTrim)
        /\ speakerLatencyCompensationSeconds
              = ClampTo2s(FiniteOr0(storedBase) + FiniteOr0(storedTrim))

\* C17 as the code has it: the compensation computed from a stored base and
\* trim is clamp(b + t, 0, 2) where b is the base brought into [0, 2] and t
\* the trim brought into [-0.3, 0.3], a value that is not finite counting as
\* 0; it is clamp(base + trim, 0, 2) when the pair is within those ranges.
C17_CompensationIsSumOfClamped ==
    (latencyCall.op = "load" /\ hasStorage) =>
        LET b == ClampTo2s(FiniteOr0(storedBase))
            t == IF FiniteOr0(storedTrim) < 0 - 300000 THEN 0 - 300000
                 ELSE IF FiniteOr0(storedTrim) > 300000 THEN 300000
                 ELSE FiniteOr0(storedTrim)
        IN  /\ speakerLatencyCompensationSeconds
                  = computeSpeakerLatencyCompensationSeconds(storedBase, storedTrim)
            /\ speakerLatencyCompensationSeconds = ClampTo2s(b + t)
            /\ (b = storedBase /\ t = storedTrim) =>
                  speakerLatencyCompensationSeconds = ClampTo2s(storedBase + storedTrim)

\* The page loaded over a stored base of 3 s and a stored trim of -0.5 s: the
\* compensation is 1.7 s.
C17_Witness ==
    /\ latencyCall.op = "load"
    /\ hasStorage
    /\ storedBase = 3000000
    /\ storedTrim = 0 - 500000
    /\ speakerLatencyCompensationSeconds = 1700000

\* The state invariant of the latency value: base in [0, 2], trim in
\* [-0.3, 0.3], compensation = clamp(base + trim, 0, 2).
LatencyStateInRange ==
    /\ speakerLatencyBaseSeconds \in 0..(2 * 1000 * 1000)
    /\ speakerLatencyTrimSeconds \in (0 - 300000)..300000
    /\ speakerLatencyCompensationSeconds
          = ClampTo2s(speakerLatencyBaseSeconds + speakerLatencyTrimSeconds)

\* C18 as stated: after any calls of the three setters, with any arguments,
\* base is in [0, 2], trim is in [-0.3, 0.3], the compensation is
\* clamp(base + trim, 0, 2), and the persisted base and trim are the values
\* in the state.
C18_StateAndStorageAgree ==
    /\ LatencyStateInRange
    /\ latencyCall.op \in {"base", "trim", "compensation"} =>
          /\ storedBase = speakerLatencyBaseSeconds
          /\ storedTrim = speakerLatencyTrimSeconds

\* The multiple of a thousandth nearest to x, the farther from 0 of two.
NearestThousandth(x) ==
    CHOOSE r \in {((x \div 1000) + k) * 1000 : k \in 0..1} :
        /\ 2 * Abs(r - x) <= 1000
        /\ 2 * Abs(r - x) = 1000 => Abs(r) > Abs(x)

\* C18 as the code has it: after any calls of the three setters, with any
\* arguments, base is in [0, 2], trim is in [-0.3, 0.3] and the compensation
\* is clamp(base + trim, 0, 2); where localStorage exists, the base setter
\* persists the base, the trim setter the trim and the compensation setter
\* both, each as the value in the state rounded to three decimals, and a
\* setter leaves the item it does not write as it was; where there is no
\* localStorage nothing is persisted.  Each setter returns the value it put
\* in the state.
C18_StateInRangeStorageRounded ==
    /\ []LatencyStateInRange
    /\ [][(latencyCall'.op \in {"base", "compensation"} /\ hasStorage)
            => /\ storedBase' = NearestThousandth(speakerLatencyBaseSeconds')
               /\ latencyCall'.returned = speakerLatencyBaseSeconds']_vars
    /\ [][(latencyCall'.op \in {"trim", "compensation"} /\ hasStorage)
            => storedTrim' = NearestThousandth(speakerLatencyTrimSeconds')]_vars
    /\ [][latencyCall'.op = "trim"
            => /\ storedBase' = storedBase
               /\ latencyCall'.returned = speakerLatencyTrimSeconds']_vars
    /\ [][latencyCall'.op = "base" => storedTrim' = storedTrim]_vars
    /\ [][~hasStorage => storedBase' = storedBase /\ storedTrim' = storedTrim]_vars

\* The trim setter has just been called with 0.2995 s over a base of
\* 0.123456 s set before: the items hold 0.123 and 0.300 (0.2995 rounded up).
C18_Witness ==
    /\ latencyCall = [op |-> "trim", returned |-> 299500]
    /\ speakerLatencyBaseSeconds = 123456
    /\ speakerLatencyCompensationSeconds = 123456 + 299500
    /\ storedBase = 123000
    /\ storedTrim = 300000

\* C19: at most one calibrate call is in progress; a calibrate call made
\* while one is in progress returns null at once, and it opens no
\* microphone stream and no audio context and leaves the call in progress,
\* its trials and its pending result as they are.
C19_OneCalibrationAtATime ==
    /\ [](Cardinality(calibCalls) <= 1 /\ liveStreams <= 1 /\ openContexts <= 1)
    /\ [][(calibEvent'.op = "calibrate" /\ calibCalls # {})
            => /\ calibEvent'.outcome = "busy"
               /\ calibCalls' = calibCalls
               /\ liveStreams' = liveStreams
               /\ openContexts' = openContexts
               /\ isRunning' = isRunning
               /\ calibStatus' = calibStatus]_vars

\* calibrate has just returned null while a call that has taken a trial holds
\* the microphone and a context.
C19_Witness ==
    /\ calibEvent.outcome = "busy"
    /\ liveStreams = 1
    /\ openContexts = 1
    /\ \E call \in calibCalls : call.pc = "sleep" /\ call.trials # <<>>

\* C20: when a calibrate call that acquired a stream or a context settles,
\* every stream track is stopped, the context is closed and isRunning is
\* false, whatever the path; and a calibrate call returns null for
\* "already in progress" only while another call is in progress.
C20_SettledReleasesAll ==
    /\ [][calibEvent'.op = "settled"
            => (liveStreams' = 0 /\ openContexts' = 0 /\ ~isRunning')]_vars
    /\ [][calibEvent'.outcome = "busy" => calibCalls # {}]_vars

\* C21: no calibrate call rejects; and a call that returns null, because
\* the microphone API or the audio API is missing, because getUserMedia or
\* the making of the context failed, or because no trial was valid, has
\* passed a failure text to setStatus and leaves the speaker latency in the
\* app state and in storage as it was.
C21_NeverRejects ==
    /\ [](calibEvent.outcome # "rejected")
    /\ [][calibEvent'.outcome \in {"unavailable", "null"}
            => /\ calibStatus' \in {"no microphone API", "no Web Audio API", "failed",
                                    "no audible detection", "unstable detection"}
               /\ UNCHANGED latencyVars]_vars

\* C22: for a non-empty list of finite trial latencies, the pick is the pick
\* of the trials within [12 ms, 900 ms] alone; a pickReturn latency is at most
\* the upper median of the lowest ceil(0.35 n) of the n valid trials, whatever
\* the trials above them (40 ms at most, and 38 ms at least, for
\* [40, 42, 38, 41, 300]), and lies in [0, 350 ms].
InValidRange(ms) == ms >= 12 /\ ms <= 900

UpperMedianOfLowCluster(valid) ==
    LET n == Len(valid)
        count == IF (7 * n) % 20 = 0 THEN (7 * n) \div 20 ELSE (7 * n) \div 20 + 1
        rank == (count \div 2) + 1
    IN CHOOSE v \in {valid[i] : i \in DOMAIN valid} :
          /\ Cardinality({i \in DOMAIN valid : valid[i] < v}) < rank
          /\ Cardinality({i \in DOMAIN valid : valid[i] <= v}) >= rank

C22_PickFromLowCluster ==
    pickReturn # NoPick =>
        LET valid == SelectSeq(pickTrials, InValidRange)
           alone == PickLatency(valid, pickContextLatencyMs)
        IN /\ pickReturn.outcome = alone.outcome
           /\ pickReturn.seconds = alone.seconds
           /\ (pickReturn.outcome = "result") = (valid # <<>>)
           /\ pickReturn.outcome = "result" =>
                /\ pickReturn.seconds <= UpperMedianOfLowCluster(valid) * 1000
                /\ pickReturn.seconds >= 0
                /\ pickReturn.seconds <= 350 * 1000
           /\ pickTrials = <<40, 42, 38, 41, 300>> =>
                /\ pickReturn.outcome = "result"
                /\ pickReturn.seconds >= 38 * 1000
                /\ pickReturn.seconds <= 42 * 1000

\* The pick of [40, 42, 38, 41, 300]: the trials are unstable because of the
\* 300, and the pick is 40 ms.
C22_Witness ==
    /\ pickTrials = <<40, 42, 38, 41, 300>>
    /\ pickReturn.outcome = "result"
    /\ pickReturn.seconds = 40 * 1000

\* The nodes of a slot that were started and neither stopped nor ended.
ActiveSources(srcs, slot) ==
    {id \in DOMAIN srcs : srcs[id].slot = slot /\ srcs[id].state = "playing"}

OneActiveSourcePerSlot ==
    \A slot \in Tracks :
        /\ Cardinality(ActiveSources(sources, slot)) <= 1
        /\ ActiveSources(sources, slot) \subseteq {tracks[slot].source}

\* After schedulePause no slot has a source or a playing node.
PauseStopsAll ==
    playerCall'.op = "schedulePause" =>
        \A slot \in Tracks :
            tracks'[slot].source = 0 /\ ActiveSources(sources', slot) = {}

\* C24: each slot has at most one active source at any time; after
\* schedulePlay exactly the slots that had a ready buffer hold a new active
\* source, and the call returns true iff a slot started; after
\* schedulePause no slot holds an active source.
C24_PlayStartsReadySlots ==
    /\ []OneActiveSourcePerSlot
    /\ [][PauseStopsAll]_vars
    /\ [][playerCall'.op = "schedulePlay" =>
            /\ \A slot \in Tracks :
                  IF tracks[slot].buffer # NoBuffer
                  THEN /\ tracks'[slot].source > Len(sources)
                       /\ ActiveSources(sources', slot) = {tracks'[slot].source}
                  ELSE /\ tracks'[slot].source = 0
                       /\ ActiveSources(sources', slot) = {}
            /\ playerCall'.returned =
                  (\E slot \in Tracks : tracks[slot].buffer # NoBuffer)]_vars

\* C24 as the code has it: the slots that start are those with a ready
\* buffer while the player holds an audio context, and none without one.
C24_PlayStartsReadySlotsWithContext ==
    /\ []OneActiveSourcePerSlot
    /\ [][PauseStopsAll]_vars
    /\ [][playerCall'.op = "schedulePlay" =>
            /\ \A slot \in Tracks :
                  IF audioContext /\ tracks[slot].buffer # NoBuffer
                  THEN /\ tracks'[slot].source > Len(sources)
                       /\ ActiveSources(sources', slot) = {tracks'[slot].source}
                  ELSE /\ tracks'[slot].source = 0
                       /\ ActiveSources(sources', slot) = {}
            /\ playerCall'.returned =
                  (audioContext /\ \E slot \in Tracks : tracks[slot].buffer # NoBuffer)]_vars

\* A schedulePlay that returned true with one slot started and the other,
\* which has no buffer, left without a source.
C24_Witness ==
    /\ playerCall.op = "schedulePlay"
    /\ playerCall.returned
    /\ \E slot \in Tracks :
          tracks[slot].source # 0 /\ ActiveSources(sources, slot) = {tracks[slot].source}
    /\ \E slot \in Tracks :
          tracks[slot].buffer = NoBuffer /\ tracks[slot].source = 0

\* C26: from a destroy of the player until the next unlock, the player
\* holds no audio context, whatever the loads that were in flight at the
\* destroy do; getAudioCurrentTime returns NaN, and schedulePlay and
\* scheduleJump start no node.
C26_NoContextAfterDestroy ==
    /\ [](destroyed => ~audioContext)
    /\ [][destroyed' /\ playerCall'.op = "getAudioCurrentTime"
            => ~playerCall'.returned]_vars
    /\ [][destroyed' /\ playerCall'.op \in {"schedulePlay", "scheduleJump"}
            => sources' = sources /\ ~playerCall'.returned]_vars

\* C25: from the return of a stop() or a destroy() of the drum pulse synth
\* until the next start() call, isRunning() is false, no interval timer is
\* live and no wood block is handed to the context, also when an earlier
\* start() was still waiting for the audio context at that time.
C25_StoppedStaysStopped ==
    /\ [](synthStopped => ~synthRunning /\ synthTimers = 0)
    /\ [][synthStopped /\ synthStopped' => tones' \subseteq tones]_vars

\* C27: a tick that sees another transport signature than the one it holds
\* sets the cursor to the current absolute beat before it emits, so it
\* emits no beat before the current one; and once the synth holds the new
\* signature, no wood block timed with another signature is still to sound.
C27_SignatureChangeResets ==
    /\ [][synthCall'.op = "tick" /\ transportSignature' # transportSignature
            => /\ \A tone \in synthCall'.emitted : tone.beat >= synthCall'.current
               /\ nextAbsoluteBeat' >= synthCall'.current]_vars
    /\ [](\A tone \in tones :
            tone.when > synthNow /\ tone.signature # <<>>
                => tone.signature = transportSignature)

\* C28: between a start() and the next stop(), while the synth holds one
\* transport signature, the cursor does not decrease and no beat index that
\* was triggered since the stop is triggered again, whatever the clock
\* offset does; a triggered beat lies within serverNow + 140 ms + latency +
\* 35 ms and is a downbeat iff its index is a multiple of numBarBeats.
C28_EachBeatOnce ==
    /\ [][(/\ synthRunning /\ synthRunning'
            /\ transportSignature' = transportSignature
            /\ IsFinite(nextAbsoluteBeat))
            => /\ nextAbsoluteBeat' >= nextAbsoluteBeat
               /\ \A tone \in synthCall'.emitted :
                    ~\E earlier \in tones :
                        /\ earlier.live
                        /\ earlier.beat = tone.beat
                        /\ earlier.signature = tone.signature]_vars
    /\ [][\A tone \in synthCall'.emitted :
            /\ synthPulse.lastDownBeatTime
                  + tone.beat * getBeatWindowMs(synthPulse.tickLength)
                 <= synthNow + NumberOr0(synthPulse.clockOffset)
                      + (140 + 35) * 1000 + synthLatency
            /\ tone.downbeat = (tone.beat % (synthPulse.numBarBeats \div 2) = 0)]_vars

\* C29: no step but the user's typing changes the input's value while the
\* user holds an uncommitted draft or the input has the focus; a sync()
\* with neither leaves the server value in the input.
C29_DraftSurvivesSync ==
    [][/\ (fieldCall'.op # "input" /\ (userDraft' \/ isEditing'))
            => inputValue' = inputValue
       /\ (fieldCall'.op = "sync" /\ ~userDraft' /\ ~isEditing')
            => inputValue' = formatServerValue(serverValue')]_vars

\* A state update with another server value reached the controller while
\* the input, out of focus, held the user's draft, and the draft stayed.
C29_Witness ==
    /\ fieldCall.op = "sync"
    /\ userDraft
    /\ ~isEditing
    /\ inputValue # formatServerValue(serverValue)

\* The draft flag falls only when commitValue resolved.
DraftClearedBySuccessOnly ==
    hasDraftValue /\ ~hasDraftValue' => fieldCall'.op = "resolved"

\* What a failed apply leaves: the error callback was invoked, the draft
\* flag is as before and a draft is still in the input, and nothing was
\* committed.
FailureKeepsDraft ==
    /\ fieldCall'.op = "rejected" => fieldCall'.error = "commit"
    /\ (/\ fieldCall'.op = "apply" /\ editable' /\ ~applying
        /\ ~parseDraftValue(inputValue).ok) => fieldCall'.error = "validation"
    /\ fieldCall'.error # "none" =>
          /\ hasDraftValue' = hasDraftValue
          /\ hasDraftValue => inputValue' = inputValue
          /\ committed' = committed
          /\ ~applying'

\* C30: the draft flag is cleared only after commitValue resolved; when
\* commitValue rejects or the draft fails validation, the error callback is
\* invoked, the draft is kept, nothing is committed, and the input and the
\* Apply button are enabled.
C30_FailureReenables ==
    [][/\ DraftClearedBySuccessOnly
       /\ FailureKeepsDraft
       /\ fieldCall'.error # "none" => ~inputDisabled' /\ ~applyDisabled']_vars

\* C30 as the code has it: after a failure the two elements are enabled
\* when canEdit() holds and disabled when it does not.
C30_FailureReenablesIfEditable ==
    [][/\ DraftClearedBySuccessOnly
       /\ FailureKeepsDraft
       /\ fieldCall'.error # "none" =>
              /\ inputDisabled' = ~editable'
              /\ applyDisabled' = ~editable']_vars

\* commitValue rejected for a draft: the draft is in the input, the flag
\* is set, and the elements are enabled for the retry.
C30_Witness ==
    /\ fieldCall.op = "rejected"
    /\ hasDraftValue
    /\ userDraft
    /\ inputValue # formatServerValue(serverValue)
    /\ ~inputDisabled /\ ~applyDisabled
\* C31: a commit starts only in an apply() step taken with the listeners on
\* and canEdit() true, never in sync() or on typing; at most one commit is
\* in flight; and once destroy() has run, a click, Enter or typing changes
\* nothing the controller owns and starts nothing.
C31_CommitOnlyOnApply ==
    [][/\ Len(commits') > Len(commits) =>
              /\ fieldCall'.op = "apply"
              /\ editable' /\ listening /\ ~applying
              /\ commits' = Append(commits, parseDraftValue(inputValue).value)
       /\ Len(commits') <= 1
       /\ applying' = (commits' # <<>>)
       /\ (~listening /\ fieldCall'.op \in {"apply", "input"}) =>
              /\ UNCHANGED <<applying, hasDraftValue, commits, committed,
                             inputDisabled, applyDisabled>>
              /\ fieldCall'.error = "none"]_vars

\* Enter was dispatched after destroy() while the commit started before it
\* was still in flight, and that commit is still the only one.
C31_Witness ==
    /\ ~listening
    /\ fieldCall.op = "apply"
    /\ isEditing
    /\ applying
    /\ Len(commits) = 1
\* C32: two clients whose local clocks differ, each with a clock offset of
\* the authority's time less its own local time, and with the same
\* lastDownBeatTime, tickLength and numBarBeats, compute the same absolute
\* beat and the same beat in bar at every instant of the authority.
C32_TwinsAgree ==
    /\ \A c \in Twins :
          /\ twinLocal[c] + twinPulse[c].clockOffset = twinAuthority
          /\ twinBeats[c] = TwinReading(twinPulse[c], twinLocal[c])
    /\ twinBeats[1] = twinBeats[2]

\* Two clients whose clocks are more than a second apart are both on
\* absolute beat 1, the second beat of the bar.
C32_Witness ==
    /\ twinLocal[1] - twinLocal[2] > 1000 * 1000
    /\ ValidTiming(twinPulse[1])
    /\ twinPulse[1].lastDownBeatTime = ServerBaseUs + 5
    /\ twinBeats[1].absoluteBeat = 1
    /\ twinBeats[2].beatInBar = 2
\* C33: a tick taken while the tick length is not a finite positive
\* number, the downbeat time is not finite or the audio clock is not
\* finite calls no sink and leaves the queue, the cursor, the seen ids and
\* the deferred ids as they were.
C33_InvalidTickIsNoOp ==
    [][(enqueueReturn' = "none" /\ (~ValidTiming(pulseState) \/ ~IsFinite(audioNow)))
          => /\ sinkLog' = <<>>
             /\ UNCHANGED <<events, nextEventCursor, seenEventIds,
                            deferredEventIds>>]_vars

\* C34: every event a tick offers to the sink has a beat time, the downbeat
\* time plus its beats times the beat window, of at most the server's now
\* plus 140 ms, the latency clamped to 0..2000 ms and 35 ms; and its target
\* time is the audio clock's now plus the beat time less the server's now,
\* less that latency.
C34_WithinHorizon ==
    \A k \in DOMAIN sinkLog :
        LET beatTime == pulseState.lastDownBeatTime
                          + sinkLog[k].event.absoluteBeat * TICKS_PER_BEAT
                              * getTickLengthMs(pulseState.tickLength)
            serverNow == now + FiniteOr0(pulseState.clockOffset)
            latency == ClampTo2s(FiniteOr0(latencySeconds))
        IN  /\ beatTime <= serverNow + (140 + 35) * 1000 + latency
            /\ sinkLog[k].whenSec = audioNow + (beatTime - serverNow) - latency

\* With a latency of 3 s, which counts as 2 s, the sink took an event of a
\* beat more than half a second ahead, for a target time before the audio
\* clock's now.
C34_Witness ==
    /\ sinkLog # <<>>
    /\ latencySeconds = 3 * 1000 * 1000
    /\ sinkLog[1].handled
    /\ BeatServerTime(sinkLog[1].event) > ServerNow + 500 * 1000
    /\ sinkLog[1].whenSec < audioNow

\* C35: the cursor is from 0 to the length of the queue, the queue is
\* sorted by beat and then id, and the seen ids hold the id of every event
\* handed; when a tick has taken the cursor past the last event, the queue
\* is empty and the cursor 0 after it, so the cursor never rests at the end
\* of a queue with events; and an accepted enqueue adds no event that was
\* handed before.
C35_QueueShape ==
    /\ [](/\ nextEventCursor \in 0..Len(events)
          /\ IsSortedByBeatAndId(events)
          /\ HandedIds \subseteq seenEventIds
          /\ nextEventCursor = Len(events) => events = <<>>)
    /\ [][/\ (/\ sinkLog' # <<>>
              /\ Len(Accepted(sinkLog')) = Len(events) - nextEventCursor)
                => (events' = <<>> /\ nextEventCursor' = 0)
          /\ enqueueReturn' = "true" =>
                \A i \in DOMAIN events' :
                    (events'[i].eventId \in HandedIds =>
                        \E j \in DOMAIN events : events[j] = events'[i])]_vars

\* A tick handed the last events of the queue: the queue is empty, the
\* cursor 0, and the ids handed are still seen.
C35_Witness ==
    /\ sinkLog # <<>>
    /\ Len(handed) >= 2
    /\ events = <<>>
    /\ nextEventCursor = 0
    /\ HandedIds \subseteq seenEventIds
\* A socket of the client is open: the one the client holds.
HoldsOpenSocket == ws # 0 /\ readyState[ws] = "open"

\* C36: the open of a socket leaves exactly five burst timers, one per
\* delay; a close of a socket and a disconnect() leave no burst timer, no
\* ping timeout and no pending request, and only an open sets burst timers
\* again; a request is recorded as pending, and get_time is sent, only by
\* a burst timer that finds the client's socket open, so requests are
\* pending only while the client holds an open socket.
C36_SyncOnlyWhileOpen ==
    /\ [](pendingPings # NoPendingPings => HoldsOpenSocket)
    /\ [][/\ \A socket \in Sockets :
               /\ (readyState'[socket] = "open" /\ readyState[socket] # "open")
                     => syncTimers' = Len(INITIAL_SYNC_DELAYS_MS)
               /\ (/\ readyState'[socket] \in {"closing", "closed"}
                   /\ readyState[socket] # readyState'[socket])
                     => /\ syncTimers' = 0
                        /\ pingTimeouts' = {}
                        /\ pendingPings' = NoPendingPings
                        /\ nextPingId' = nextPingId
          /\ (ws' = 0 /\ readyState' = readyState /\ now' = now) =>
                pendingPings' = NoPendingPings /\ pingTimeouts' = {}
          /\ syncTimers' > syncTimers =>
                \E socket \in Sockets :
                    readyState'[socket] = "open" /\ readyState[socket] # "open"
          /\ (nextPingId' # nextPingId \/ pingTimeouts' \ pingTimeouts # {}
                  \/ DOMAIN pendingPings' \ DOMAIN pendingPings # {}) =>
                /\ HoldsOpenSocket
                /\ syncTimers' = syncTimers - 1
                /\ nextPingId' = nextPingId + 1
                /\ DOMAIN pendingPings' = DOMAIN pendingPings \cup {nextPingId}]_vars

\* The socket closed after two requests had been sent on it: no timer is
\* left and nothing is pending.
C36_Witness ==
    /\ readyState[1] = "closed"
    /\ ws = 0
    /\ nextPingId = 3
    /\ sampledIds = {}
    /\ syncTimers = 0
    /\ pingTimeouts = {}
    /\ pendingPings = NoPendingPings
\* C38: the close event of a socket the client no longer holds, delivered
\* after disconnect() and ensureConnected() have made a new connection,
\* leaves the client holding the new socket and leaves the burst timers and
\* the pending requests of the new connection as they are.
C38_OldCloseKeepsNew ==
    [][\A socket \in Sockets :
          (/\ readyState'[socket] = "closed" /\ readyState[socket] = "closing"
           /\ ws # 0 /\ ws # socket)
             => /\ ws' = ws
                /\ UNCHANGED <<syncTimers, pendingPings, pingTimeouts>>]_vars
\* C37: after any pulse messages the tick length of the app state is a
\* finite number above 0, the bar length a whole number of at least 1 and
\* the downbeat time finite; a field of a message that is not finite, and a
\* tick length that is not above 0, leaves the field of the state as it
\* was; and a message with no field that passes calls no listener.
C37_PulseStateStaysValid ==
    /\ [](/\ IsFinite(statePulse.tickLength) /\ statePulse.tickLength > 0
          /\ IsFinite(statePulse.numBarBeats)
          /\ statePulse.numBarBeats % 2 = 0 /\ statePulse.numBarBeats >= 2
          /\ IsFinite(statePulse.lastDownBeatTime))
    /\ [][LET message == pulseMessage'
               passes == [lastDownBeatTime |-> message.lastDownBeatTime # NaN,
                          tickLength |-> message.tickLength # NaN
                                           /\ message.tickLength > 0,
                          numBarBeats |-> message.numBarBeats # NaN]
           IN  /\ \A field \in DOMAIN passes :
                     ~passes[field] => statePulse'[field] = statePulse[field]
               /\ passes.lastDownBeatTime =>
                     statePulse'.lastDownBeatTime = message.lastDownBeatTime
               /\ passes.tickLength => statePulse'.tickLength = message.tickLength
               /\ (\A field \in DOMAIN passes : ~passes[field]) <=> notified' = 0
       ]_vars

\* A message with a tick length of 0, a bar length of 3.5 and no downbeat
\* time left the tick length and the downbeat time alone, set a bar
\* length of 3 and called the listener.
C37_Witness ==
    /\ pulseMessage = [lastDownBeatTime |-> NaN, tickLength |-> 0, numBarBeats |-> 7]
    /\ statePulse.numBarBeats = 2 * 3
    /\ statePulse.tickLength = 1
    /\ statePulse.lastDownBeatTime = 0 - 3
    /\ notified = 1
\* C39: the ended event of a node that is no longer the source of its slot
\* leaves every slot as it is; the ended event of the node that is the
\* source of its slot clears that slot's source and no other.
C39_SupersededEndKeepsSource ==
    [][playerCall'.op = "ended" =>
          \A id \in DOMAIN sources :
              (sources'[id].state = "ended" /\ sources[id].state # "ended") =>
                  IF tracks[sources[id].slot].source = id
                  THEN tracks' = [tracks EXCEPT ![sources[id].slot].source = 0]
                  ELSE tracks' = tracks]_vars

\* The node a jump had replaced on its slot has ended, and the slot still
\* holds the node of the jump, which plays.
C39_Witness ==
    /\ playerCall.op = "ended"
    /\ \E id \in DOMAIN sources :
          /\ sources[id].state = "ended"
          /\ tracks[sources[id].slot].source \notin {0, id}
          /\ sources[tracks[sources[id].slot].source].state = "playing"
\* C40: when every fetch and every decoding completes with success and the
\* URL asked for a slot stays the same, the slot's buffer is ready in the
\* end, however often setTrackSource is called for that URL meanwhile.
C40_BufferBecomesReady ==
    \A slot \in Tracks :
        (tracks[slot].url = "a") ~> (tracks[slot].buffer = "a")
=========================================================================
